---------------------------- MODULE Spec2Model ----------------------------
(***************************************************************************)
(* claude-bridge: an OpenAI-compatible HTTP front end with two backends.   *)
(*   - process variant (src/unnamed/part_001): every request spawns the    *)
(*     Claude CLI; a process-wide counter bounds the spawned processes.    *)
(*   - direct variant (src/server.js): every request is one call to the    *)
(*     remote Messages API.                                                *)
(* The variant is fixed when the server starts.  A request is a record of  *)
(* the per-request closure variables of its handler plus what the client   *)
(* has been sent; node runs every callback to completion, so one callback  *)
(* (with the promise continuations it triggers) is one action.             *)
(***************************************************************************)
EXTENDS Integers, Sequences, FiniteSets, Bags, TLC

\* ------------------------------------------------------------ bounds

\* requests the clients send during one run
NumReq == 3
\* capacity of the limiter (MAX_CONCURRENT is read from the environment)
MAX_CONCURRENT == 2
\* content, tool-call and argument events the backends produce during one run
MaxContent == 2
\* client connections that terminate before their response is complete
MaxDrops == 1
\* messages in one request body
MaxMsgs == 2
\* text, tool and argument events the backend sends for a request served alone
MaxEvents == 3
\* messages in the body that opens a conversation
MaxTurns == 3
\* events with a stop reason the remote API sends for a request served alone
MaxReasons == 2
\* events the backends send to two streams that are served at once
MaxShared == 4
\* bytes a backend writes to a stream whose reads are followed byte by byte
MaxBytes == 4

\* ------------------------------------------------------------ JSON values

Undef == [t |-> "undefined"]
Null == [t |-> "null"]
Str(s) == [t |-> "string", v |-> s]
Num(n) == [t |-> "number", v |-> n]
Bool(b) == [t |-> "boolean", v |-> b]
Arr(q) == [t |-> "array", v |-> q]
Part(type, text) == [t |-> "object", type |-> type, text |-> text]
Msg(role, content) == [t |-> "object", role |-> role, content |-> content]

\* !x of JavaScript
Falsy(x) ==
  \/ x.t \in {"undefined", "null"}
  \/ x.t = "string" /\ x.v = ""
  \/ x.t = "number" /\ x.v = 0
  \/ x.t = "boolean" /\ ~x.v

\* a property read x.f throws a TypeError exactly on null and undefined
Nullish(x) == x.t \in {"undefined", "null"}

\* a || b of JavaScript
OrElse(a, b) == IF Falsy(a) THEN b ELSE a

\* x.f of an object x: undefined when x has no property f
Get(x, f) == IF f \in DOMAIN x THEN x[f] ELSE Undef

\* the number of characters of s.substring(0, n), s having len characters
substring(len, n) == IF len > n THEN n ELSE len

\* the lengths of the error texts a backend returns: the bodies of the remote
\* API's non-2xx responses (a body that cannot be read counts as the empty
\* string) and what the CLI has written to stderr
ErrBodies == {0, 499, 500, 501, 2000}

\* ------------------------------------------------------------ limiter

\* the comparison admits one execution more than the capacity
acquireSlot_OffByOne(n) ==
  IF n > MAX_CONCURRENT THEN [ok |-> FALSE, n |-> n] ELSE [ok |-> TRUE, n |-> n + 1]

\* the counter is incremented before the comparison, for a rejected caller too
acquireSlot_CountRejected(n) ==
  IF n >= MAX_CONCURRENT THEN [ok |-> FALSE, n |-> n + 1] ELSE [ok |-> TRUE, n |-> n + 1]

\* acquireSlot(): the result and the new value of activeProcesses
acquireSlot(n) ==
  IF n >= MAX_CONCURRENT THEN [ok |-> FALSE, n |-> n] ELSE [ok |-> TRUE, n |-> n + 1]

\* the counter is not decremented
releaseSlot_Keep(n) == n

\* releaseSlot(): the new value of activeProcesses
releaseSlot(n) == IF n - 1 > 0 THEN n - 1 ELSE 0

\* ------------------------------------------------------------ sequences

RECURSIVE Join(_, _)
\* Array.prototype.join of a sequence of strings
Join(q, sep) ==
  IF Len(q) = 0 THEN ""
  ELSE IF Len(q) = 1 THEN q[1]
  ELSE q[1] \o sep \o Join(Tail(q), sep)

RECURSIVE SeqsUpTo(_, _)
\* the sequences of at most n elements of S
SeqsUpTo(S, n) ==
  IF n = 0 THEN {<<>>}
  ELSE LET shorter == SeqsUpTo(S, n - 1)
       IN shorter \cup {Append(q, e) : q \in {p \in shorter : Len(p) = n - 1}, e \in S}

\* ------------------------------------------------------------ process variant: validation

\* validateChatRequest throws a TypeError where it reads m.role of a null message
validateThrows(body) ==
  /\ ~Falsy(body.messages)
  /\ body.messages.t = "array"
  /\ \E i \in 1..Len(body.messages.v) : Nullish(body.messages.v[i])

\* validateChatRequest(body): the list of errors (defined where validateThrows is false)
validateChatRequest(body) ==
  IF Falsy(body.messages) \/ body.messages.t # "array"
  THEN <<"messages must be a non-empty array">>
  ELSE IF Len(body.messages.v) = 0
  THEN <<"messages array must not be empty">>
  ELSE
    LET msgs == body.messages.v
        hasNonSystem == \E i \in 1..Len(msgs) : msgs[i].role # Str("system")
        roleErr(i) == Falsy(msgs[i].role) \/ msgs[i].role.t # "string"
        contentErr(i) == Nullish(msgs[i].content)
        perMsg[i \in 0..Len(msgs)] ==
          IF i = 0 THEN <<>>
          ELSE perMsg[i - 1]
               \o (IF roleErr(i) THEN <<"role is required and must be a string">> ELSE <<>>)
               \o (IF contentErr(i) THEN <<"content is required">> ELSE <<>>)
        mt == body.max_tokens
        tp == body.temperature
        pp == body.top_p
    IN (IF hasNonSystem THEN <<>> ELSE <<"at least one non-system message is required">>)
       \o perMsg[Len(msgs)]
       \o (IF mt # Undef /\ (mt.t # "number" \/ mt.v < 1)
           THEN <<"max_tokens must be a positive number">> ELSE <<>>)
       \o (IF tp # Undef /\ (tp.t # "number" \/ tp.v < 0 \/ tp.v > 2)
           THEN <<"temperature must be a number between 0 and 2">> ELSE <<>>)
       \o (IF pp # Undef /\ (pp.t # "number" \/ pp.v < 0 \/ pp.v > 1)
           THEN <<"top_p must be a number between 0 and 1">> ELSE <<>>)

\* ------------------------------------------------------------ process variant: conversion

\* extractTextContent throws where the filter reads part.type of a null part
extractTextThrows(content) ==
  content.t = "array" /\ \E i \in 1..Len(content.v) : Nullish(content.v[i])

\* extractTextContent(content), defined where extractTextThrows is false
extractTextContent(content) ==
  IF content.t = "string" THEN content.v
  ELSE IF content.t = "array"
  THEN LET texts == SelectSeq(content.v, LAMBDA p : p.type = "text")
       IN Join([i \in 1..Len(texts) |-> texts[i].text], "\n")
  ELSE ""

\* convertMessages(messages) of the process variant: {systemPrompt, userPrompt}, or
\* the exception extractTextContent raises
convertMessages(messages) ==
  IF \E i \in 1..Len(messages) : extractTextThrows(messages[i].content)
  THEN [threw |-> TRUE, systemPrompt |-> Null, userPrompt |-> Str("")]
  ELSE
    LET text(i) == extractTextContent(messages[i].content)
        kept == SelectSeq([i \in 1..Len(messages) |->
                             [role |-> messages[i].role, content |-> text(i)]],
                          LAMBDA m : m.content # "")
        systemParts == SelectSeq(kept, LAMBDA m : m.role = Str("system"))
        turnOf(m) ==
          IF m.role = Str("user") THEN [role |-> "Human", content |-> m.content]
          ELSE IF m.role = Str("assistant") THEN [role |-> "Assistant", content |-> m.content]
          ELSE [role |-> "Human", content |-> "[Tool result: unknown]\n" \o m.content]
        conv == SelectSeq(kept, LAMBDA m : m.role \in {Str("user"), Str("assistant"),
                                                       Str("function"), Str("tool")})
        turns == [i \in 1..Len(conv) |-> turnOf(conv[i])]
        systemPrompt ==
          IF Len(systemParts) > 0
          THEN Str(Join([i \in 1..Len(systemParts) |-> systemParts[i].content], "\n\n"))
          ELSE Null
    IN IF Len(turns) = 1 /\ turns[1].role = "Human"
       THEN [threw |-> FALSE, systemPrompt |-> systemPrompt, userPrompt |-> Str(turns[1].content)]
       ELSE [threw |-> FALSE, systemPrompt |-> systemPrompt,
             userPrompt |-> Str(Join([i \in 1..Len(turns) |->
                                        turns[i].role \o ": " \o turns[i].content], "\n\n"))]

\* ------------------------------------------------------------ request bodies

MsgSamples ==
  { Msg(Str("user"), Str("hi")),
    Msg(Str("system"), Str("sys")),
    Msg(Str("assistant"), Str("ok")),
    Msg(Str("tool"), Str("res")),
    Msg(Str("user"), Arr(<<Part("text", "p"), Part("image_url", "")>>)),
    Msg(Str("user"), Arr(<<Null>>)),
    Msg(Str("user"), Null),
    Msg(Undef, Str("hi")),
    Null }

\* bodies of POST /v1/chat/completions
ChatBodies ==
  [ messages : {Undef, Str("hi")} \cup {Arr(q) : q \in SeqsUpTo(MsgSamples, MaxMsgs)},
    stream : {Undef, Bool(TRUE), Bool(FALSE)},
    max_tokens : {Undef, Num(0), Num(1), Str("1")},
    temperature : {Undef, Num(1), Num(3)},
    top_p : {Undef, Num(1), Num(2)} ]

\* what the process variant's chat handler does with a body before it spawns
chatClass(body) ==
  IF validateThrows(body) THEN "validate_throws"
  ELSE IF validateChatRequest(body) # <<>> THEN "invalid"
  ELSE IF convertMessages(body.messages.v).threw THEN "convert_throws"
  ELSE IF ~Falsy(body.stream) THEN "stream"
  ELSE "nonstream"

\* one body of each class: the handler reads a body only through the operators
\* that define its class
ChatInputs ==
  { CHOOSE b \in ChatBodies : chatClass(b) = c : c \in {chatClass(b) : b \in ChatBodies} }

\* values of the prompt field of POST /v1/completions
PromptInputs ==
  { Undef, Str(""), Str(" "), Str("hi"), Arr(<<"a", "b">>), Arr(<<>>), Num(7) }

\* String.prototype.trim on the strings of PromptInputs
Trim(s) == IF s = " " THEN "" ELSE s

\* ------------------------------------------------------------ a request

\* frames of an event stream
RoleChunk == [kind |-> "role"]
ContentChunk(text) == [kind |-> "content", content |-> text]
ToolChunk(i, id, name) ==
  [kind |-> "tool", index |-> i, id |-> id, name |-> name, arguments |-> ""]
ArgsChunk(i, fragment) == [kind |-> "args", index |-> i, arguments |-> fragment]
ErrorFrame == [kind |-> "error"]
FinishChunk(reason) == [kind |-> "finish", finish_reason |-> reason]
DoneFrame == [kind |-> "done"]

\* a request before it is received
NewReq ==
  [ pc |-> "new",           \* new | active | done | threw (the handler raised)
    route |-> "none",       \* chat | legacy
    kind |-> "none",        \* stream | json: which response the handler produces
    invalid |-> FALSE,      \* the body fails the handler's validation
    status |-> 0,           \* HTTP status sent, 0 while no header is sent
    frames |-> <<>>,        \* frames written to the open event stream
    ended |-> FALSE,        \* res.end() was called, or res.json() sent the body
    client |-> "open",      \* open | closed: the client's connection
    acquired |-> FALSE,     \* acquireSlot() returned true for this request
    releases |-> 0,         \* calls of releaseSlot() made for this request
    invoked |-> 0,          \* spawn attempts / outbound calls made for it
    alive |-> "none",       \* none | running | signalled | dead: the subprocess
    exitCode |-> 0,
    closePending |-> FALSE, \* the 'close' event is due
    errPending |-> FALSE,   \* the 'error' event is due
    finished |-> FALSE,
    sentContent |-> FALSE,
    buffer |-> "",
    timer |-> FALSE,        \* the timer of runClaudeNonStreaming is armed
    killed |-> FALSE,
    settled |-> FALSE,      \* the promise of runClaudeNonStreaming is settled
    stopReason |-> Str("stop"), \* the stop reason recorded (that of the result read)
    activeToolCalls |-> <<>>, \* entry k + 1 is what the Map holds under index k
    finish |-> "",          \* finish_reason of the completion sent by res.json
    seen |-> <<>>,          \* the lines the backend has sent, but those with a stop reason,
                            \* until the response ended
    late |-> 0,             \* the lines the backend has sent after the response ended
    readFailed |-> FALSE,   \* reader.read() raised
    toolCallIndex |-> -1,
    messages |-> <<>>,      \* req.body.messages of a body the direct variant converts
    anthropicMessages |-> <<>>, \* what convertMessages made of them
    message |-> Null,       \* the message of the completion sent by res.json
    answers |-> <<>>,       \* the tool calls of the completion this request answers
    timedOut |-> FALSE,     \* CLI_TIMEOUT_MS elapsed while the subprocess was running
    err |-> "",             \* which error the catch block of the handler caught
    errBody |-> 0,          \* characters in the body of the remote API's non-2xx response
    errCarried |-> 0,       \* characters of that body in the message of the error
    resultContent |-> <<>>, \* the content blocks of the result the remote API returned
    tool_choice |-> Undef,  \* req.body.tool_choice of a body the direct variant converts
    anthropicToolChoice |-> Undef, \* anthropicBody.tool_choice, undefined when absent
    stages |-> <<>>,        \* what the handler has done so far, in order: acquire,
                            \* convert, invoke, respond (the response is complete), release
    reasons |-> <<>>,       \* the stop reasons the remote API's events have carried
    system |-> Undef,       \* anthropicBody.system, undefined when absent
    got |-> <<>>,           \* the bytes read from the backend, where reads are followed
    pending |-> <<>>,       \* buffer as a sequence of characters, where reads are followed
    held |-> <<>>,          \* the bytes the TextDecoder keeps for its next call
    out |-> Undef,          \* what the subprocess had written when 'close' decided
    text |-> Undef ]        \* the text of the completion of the process variant

\* a frame written after res.end() reaches the client
write_IgnoresEnd(q, frame) ==
  IF q.client = "closed" THEN q
  ELSE [q EXCEPT !.frames = Append(@, frame), !.status = IF @ = 0 THEN 200 ELSE @]

\* res.write(frame): nothing reaches a client that is gone or a response that ended
write(q, frame) ==
  IF q.ended \/ q.client = "closed" THEN q
  ELSE [q EXCEPT !.frames = Append(@, frame), !.status = IF @ = 0 THEN 200 ELSE @]

\* sendSSE(res, data)
sendSSE(q, frame) == write(q, frame)

\* res.end()
end(q) == [q EXCEPT !.ended = TRUE, !.stages = Append(@, "respond")]

\* res.status(code).json(...)
json(q, code) ==
  [q EXCEPT !.status = code, !.ended = TRUE, !.pc = "done", !.stages = Append(@, "respond")]

\* proc.kill('SIGTERM')
kill(q) == [q EXCEPT !.alive = IF @ = "running" THEN "signalled" ELSE @]

\* a call of releaseSlot() made by the handler of the request st.q
release(st) ==
  [q |-> [st.q EXCEPT !.releases = @ + 1, !.stages = Append(@, "release")],
   n |-> releaseSlot(st.n)]

\* ------------------------------------------------------------ process variant: handlers
\* A handler is an operator on st = [q |-> the request, n |-> activeProcesses].
\* spawn is what child_process.spawn does: "throw" (it raises), "fail" (the child
\* cannot be started: 'error' and 'close' follow) or "ok" (the child runs).

\* spawnClaude(userPrompt, options)
spawnClaude(q0, spawn) ==
  LET q == [q0 EXCEPT !.invoked = @ + 1, !.stages = Append(@, "invoke")]
  IN IF spawn = "ok" THEN [q EXCEPT !.alive = "running"]
     ELSE IF spawn = "fail"
     THEN [q EXCEPT !.exitCode = 1, !.errPending = TRUE, !.closePending = TRUE]
     ELSE q

\* the catch block of a non-streaming handler: reject(why) reaches it at once
catchNonStreaming(st, why) ==
  LET r == release(st)
      code == IF r.q.route = "chat" /\ why = "timeout" THEN 504 ELSE 500
  IN [q |-> json(r.q, code), n |-> r.n]

\* a rejection of a settled promise reaches the catch block again
reject_Again(st, why) ==
  catchNonStreaming([st EXCEPT !.q.settled = TRUE, !.q.err = why], why)

\* reject(new Error(...)) inside runClaudeNonStreaming: a settled promise stays as it is
reject(st, why) ==
  IF st.q.settled THEN st
  ELSE catchNonStreaming([st EXCEPT !.q.settled = TRUE, !.q.err = why], why)

\* resolve({text, usage, ...}): the rest of the try block runs
resolve(st, text) ==
  IF st.q.settled THEN st
  ELSE LET r == release([st EXCEPT !.q.settled = TRUE, !.q.text = text])
       IN [q |-> json(r.q, 200), n |-> r.n]

\* runClaudeNonStreaming(prompt, options) up to the first await
runClaudeNonStreaming(st, spawn) ==
  IF spawn = "throw"
  THEN reject([st EXCEPT !.q = spawnClaude(@, spawn)], "spawn")
  ELSE [st EXCEPT !.q = [spawnClaude(@, spawn) EXCEPT !.timer = TRUE, !.pc = "active"]]

\* the streaming branch of the chat handler: role chunk, spawn, register the callbacks
startStreaming(st, spawn) ==
  LET q1 == sendSSE([st.q EXCEPT !.kind = "stream"], RoleChunk)
      q2 == spawnClaude(q1, spawn)
  IN IF spawn = "throw"
     THEN LET r == release([q |-> q2, n |-> st.n])
          IN [r EXCEPT !.q = [end(write(sendSSE(@, ErrorFrame), DoneFrame)) EXCEPT !.pc = "done"]]
     ELSE [q |-> [q2 EXCEPT !.pc = "active"], n |-> st.n]

\* the chat handler once acquireSlot() has returned true: convertMessages runs
\* outside any try block, so its exception leaves the handler at once
chatAdmitted(st, body, spawn) ==
  LET s1 == [st EXCEPT !.q.acquired = TRUE, !.q.stages = Append(@, "acquire")]
      s2 == [s1 EXCEPT !.q.stages = Append(@, "convert")]
  IN IF convertMessages(body.messages.v).threw
     THEN [s1 EXCEPT !.q.pc = "threw"]
     ELSE IF ~Falsy(body.stream)
     THEN startStreaming(s2, spawn)
     ELSE runClaudeNonStreaming([s2 EXCEPT !.q.kind = "json"], spawn)

\* the slot is taken before the body is validated
chatHandler_AcquireFirst(st, body, spawn) ==
  LET q == [st.q EXCEPT !.route = "chat"]
      a == acquireSlot(st.n)
  IN IF ~a.ok THEN [q |-> json(q, 429), n |-> a.n]
     ELSE IF validateThrows(body) THEN [q |-> [q EXCEPT !.pc = "threw", !.acquired = TRUE], n |-> a.n]
     ELSE IF validateChatRequest(body) # <<>>
     THEN [q |-> json([q EXCEPT !.acquired = TRUE], 400), n |-> a.n]
     ELSE chatAdmitted([q |-> q, n |-> a.n], body, spawn)

\* app.post('/v1/chat/completions') up to its first await or return
chatHandler(st, body, spawn) ==
  LET q == [st.q EXCEPT !.route = "chat"]
  IN IF validateThrows(body) THEN [q |-> [q EXCEPT !.pc = "threw"], n |-> st.n]
     ELSE IF validateChatRequest(body) # <<>> THEN [q |-> json(q, 400), n |-> st.n]
     ELSE
       LET a == acquireSlot(st.n)
       IN IF ~a.ok THEN [q |-> json(q, 429), n |-> a.n]
          ELSE chatAdmitted([q |-> q, n |-> a.n], body, spawn)

\* the validation of app.post('/v1/completions')
legacyInvalid(prompt) == Falsy(prompt) \/ (prompt.t = "string" /\ Trim(prompt.v) = "")

\* app.post('/v1/completions') up to its first await or return
legacyHandler(st, prompt, spawn) ==
  LET q == [st.q EXCEPT !.route = "legacy"]
  IN IF legacyInvalid(prompt)
     THEN [q |-> json(q, 400), n |-> st.n]
     ELSE
       LET a == acquireSlot(st.n)
       IN IF ~a.ok THEN [q |-> json(q, 429), n |-> a.n]
          ELSE
            LET s1 == [q |-> [q EXCEPT !.acquired = TRUE, !.stages = Append(@, "acquire")],
                       n |-> a.n]
            IN IF prompt.t \notin {"string", "array"}
               THEN [s1 EXCEPT !.q.pc = "threw"]
               ELSE runClaudeNonStreaming([s1 EXCEPT !.q.kind = "json"], spawn)

\* lines of the CLI that are not JSON, or are no content_block_delta event
NonEvents == {"x"}

\* JSON.parse(line) and the reads of handleStreamEvent: a line is written as the
\* delta.text of its event; a line of NonEvents raises in JSON.parse or is an
\* event of another type, and has no text
deltaText(line) == IF line \in NonEvents THEN "" ELSE line

\* the try block around JSON.parse(line) and handleStreamEvent(event, ...): one
\* content chunk when the line is a content_block_delta with a non-empty text
handleStreamEvent(q, line) ==
  LET text == deltaText(line)
  IN IF text = "" THEN q ELSE [sendSSE(q, ContentChunk(text)) EXCEPT !.sentContent = TRUE]

\* the buffered part of a line is not put before the part that completes it
onStdoutData_NoCarry(q, chunk) ==
  IF ~chunk.nl THEN [q EXCEPT !.buffer = @ \o chunk.text]
  ELSE [handleStreamEvent(q, chunk.text) EXCEPT !.buffer = ""]

\* proc.stdout.on('data') of the streaming path.  The CLI writes one event per line;
\* a line is written here as the text of its content_block_delta.  chunk.text is the
\* part of a line that arrives and chunk.nl tells whether its newline arrives with it:
\* a whole line, a line whose newline has not arrived, or the newline alone.
onStdoutData(q, chunk) ==
  IF ~chunk.nl THEN [q EXCEPT !.buffer = @ \o chunk.text]
  ELSE [handleStreamEvent(q, q.buffer \o chunk.text) EXCEPT !.buffer = ""]

\* the finish reason follows the exit code alone
closeFinishReason_ByCode(code, sentContent) == IF code = 0 THEN "stop" ELSE "error"

\* every non-zero exit that is not reported as an error frame ends in "error"
closeFinishReason_AlwaysError(code, sentContent) == "error"

\* the finish_reason of the finish chunk the 'close' callback writes
closeFinishReason(code, sentContent) == IF code = 0 \/ sentContent THEN "stop" ELSE "error"

\* the callback does not consult the finished flag
onStreamClose_Unguarded(st) ==
  LET q0 == [st.q EXCEPT !.closePending = FALSE, !.finished = TRUE]
      q1 == sendSSE(q0, FinishChunk(closeFinishReason(q0.exitCode, q0.sentContent)))
  IN release([q |-> [end(write(q1, DoneFrame)) EXCEPT !.pc = "done"], n |-> st.n])

\* the [DONE] line is written before the finish chunk
onStreamClose_DoneFirst(st) ==
  LET q0 == [st.q EXCEPT !.closePending = FALSE]
  IN IF q0.finished THEN [st EXCEPT !.q = q0]
     ELSE LET q1 == write([q0 EXCEPT !.finished = TRUE], DoneFrame)
              q2 == sendSSE(q1, FinishChunk(closeFinishReason(q1.exitCode, q1.sentContent)))
          IN release([q |-> [end(q2) EXCEPT !.pc = "done"], n |-> st.n])

\* proc.on('close') of the streaming path
onStreamClose(st) ==
  LET q0 == [st.q EXCEPT !.closePending = FALSE]
      q1 == IF q0.buffer # "" THEN handleStreamEvent(q0, q0.buffer) ELSE q0
      code == q1.exitCode
  IN IF q1.finished THEN [st EXCEPT !.q = q1]
     ELSE
       LET q2 == [q1 EXCEPT !.finished = TRUE]
           q3 == IF code # 0 /\ ~q2.sentContent THEN sendSSE(q2, ErrorFrame) ELSE q2
           q4 == sendSSE(q3, FinishChunk(closeFinishReason(code, q3.sentContent)))
           q5 == end(write(q4, DoneFrame))
       IN release([q |-> [q5 EXCEPT !.pc = "done"], n |-> st.n])

\* proc.on('error') of the streaming path
onStreamError(st) ==
  LET q0 == [st.q EXCEPT !.errPending = FALSE]
  IN IF q0.finished THEN [st EXCEPT !.q = q0]
     ELSE LET q1 == end(write(sendSSE([q0 EXCEPT !.finished = TRUE], ErrorFrame), DoneFrame))
          IN release([q |-> [q1 EXCEPT !.pc = "done"], n |-> st.n])

\* res.on('close') of the streaming path: the client's connection is gone
onResClose(st) ==
  IF st.q.finished THEN st
  ELSE release([q |-> [kill([st.q EXCEPT !.finished = TRUE]) EXCEPT !.pc = "done"], n |-> st.n])

\* the setTimeout callback of runClaudeNonStreaming
onTimer(st) ==
  reject([st EXCEPT !.q = kill([@ EXCEPT !.timer = FALSE, !.killed = TRUE,
                                         !.timedOut = @ \/ st.q.alive = "running"])],
         "timeout")

\* a result object the CLI writes with --output-format json
CliResult(is_error, result) == [t |-> "object", is_error |-> is_error, result |-> result]

\* what the CLI has written to stdout when it exits: the trimmed text, whether
\* JSON.parse accepts it, and the value parsed.  A result, a result without text,
\* results with the error marker, the texts null and 5, and plain text
Outputs ==
  { [trimmed |-> "{result:hi}", parses |-> TRUE, value |-> CliResult(Bool(FALSE), Str("hi"))],
    [trimmed |-> "{}", parses |-> TRUE, value |-> [t |-> "object"]],
    [trimmed |-> "{is_error,result:bad}", parses |-> TRUE, value |-> CliResult(Bool(TRUE), Str("bad"))],
    [trimmed |-> "{is_error}", parses |-> TRUE, value |-> CliResult(Bool(TRUE), Undef)],
    [trimmed |-> "null", parses |-> TRUE, value |-> Null],
    [trimmed |-> "5", parses |-> TRUE, value |-> Num(5)],
    [trimmed |-> "plain", parses |-> FALSE, value |-> Undef],
    [trimmed |-> "", parses |-> FALSE, value |-> Undef] }

\* the outputs the CLI writes while several requests are served
SomeOutputs == {o \in Outputs : o.trimmed \in {"{result:hi}", "{is_error,result:bad}"}}

\* output that does not parse fails the request
onClose_FallbackFails(st, out, stderr) ==
  LET s0 == [st EXCEPT !.q = [@ EXCEPT !.closePending = FALSE, !.timer = FALSE]]
      s1 == [s0 EXCEPT !.q.out = out]
  IN IF s0.q.killed THEN s0
     ELSE IF s0.q.exitCode # 0
     THEN reject([s1 EXCEPT !.q.errBody = stderr, !.q.errCarried = substring(stderr, 500)], "exit")
     ELSE IF ~out.parses \/ Nullish(out.value) THEN reject(s1, "cli_error")
     ELSE IF ~Falsy(Get(out.value, "is_error")) THEN reject(s1, "cli_error")
     ELSE resolve(s1, OrElse(Get(out.value, "result"), Str("")))

\* proc.on('close') of runClaudeNonStreaming; out is what stdout holds and stderr
\* the number of characters written to stderr.  Reading is_error of a parsed null
\* raises inside the try block, whose catch answers with the raw text
onClose(st, out, stderr) ==
  LET s0 == [st EXCEPT !.q = [@ EXCEPT !.closePending = FALSE, !.timer = FALSE]]
      s1 == [s0 EXCEPT !.q.out = out]
  IN IF s0.q.killed THEN s0
     ELSE IF s0.q.exitCode # 0
     THEN reject([s1 EXCEPT !.q.errBody = stderr, !.q.errCarried = substring(stderr, 500)], "exit")
     ELSE IF ~out.parses \/ Nullish(out.value) THEN resolve(s1, Str(out.trimmed))
     ELSE IF ~Falsy(Get(out.value, "is_error")) THEN reject(s1, "cli_error")
     ELSE resolve(s1, OrElse(Get(out.value, "result"), Str("")))

\* proc.on('error') of runClaudeNonStreaming
onError(st) ==
  LET s0 == [st EXCEPT !.q = [@ EXCEPT !.errPending = FALSE, !.timer = FALSE]]
  IN IF s0.q.killed THEN s0 ELSE reject(s0, "spawn")

\* ------------------------------------------------------------ direct variant: handlers

\* stop reasons the remote API reports in message_delta events
StopReasons == {Str("end_turn"), Str("max_tokens"), Str("tool_use")}

\* a value the switch does not know is handed through
mapStopReason_PassUnknown(reason) ==
  IF reason = Str("end_turn") \/ reason = Str("stop_sequence") THEN "stop"
  ELSE IF reason = Str("max_tokens") THEN "length"
  ELSE IF reason = Str("tool_use") THEN "tool_calls"
  ELSE IF reason.t = "string" THEN reason.v ELSE "null"

\* mapStopReason(reason)
mapStopReason(reason) ==
  IF reason = Str("end_turn") \/ reason = Str("stop_sequence") THEN "stop"
  ELSE IF reason = Str("max_tokens") THEN "length"
  ELSE IF reason = Str("tool_use") THEN "tool_calls"
  ELSE "stop"

\* genId(prefix): the prefix and 24 random characters, written here as one
\* fixed suffix; the code relies only on the result being a non-empty string
genId(prefix) == Str(prefix \o "-generated")

\* the objects that occur as tool-call arguments
EmptyObject == [t |-> "object"]
CityObject == [t |-> "object", city |-> Str("Prague")]

\* JSON.parse on the strings that occur as tool-call arguments; it throws on
\* every string that is not a JSON text
JSONparse(s) ==
  IF s = "{}" THEN [threw |-> FALSE, v |-> EmptyObject]
  ELSE IF s = "{\"city\":\"Prague\"}" THEN [threw |-> FALSE, v |-> CityObject]
  ELSE IF s = "null" THEN [threw |-> FALSE, v |-> Null]
  ELSE [threw |-> TRUE, v |-> Undef]

\* JSON.stringify on the values that occur as tool-call arguments and as the
\* content of tool messages; it returns undefined for undefined
JSONstringify(x) ==
  IF x = EmptyObject THEN Str("{}")
  ELSE IF x = CityObject THEN Str("{\"city\":\"Prague\"}")
  ELSE IF x.t = "null" THEN Str("null")
  ELSE IF x.t = "string" THEN Str("\"" \o x.v \o "\"")
  ELSE IF x.t = "array" /\ x.v = <<>> THEN Str("[]")
  ELSE Undef

\* a tool call of an assistant message, and a tool message, of the OpenAI format
ToolCall(id, name, arguments) ==
  [t |-> "object", id |-> id, type |-> Str("function"),
   function |-> [t |-> "object", name |-> name, arguments |-> arguments]]
AssistantMsg(content, calls) ==
  [t |-> "object", role |-> Str("assistant"), content |-> content, tool_calls |-> Arr(calls)]
ToolMsg(id, content) ==
  [t |-> "object", role |-> Str("tool"), tool_call_id |-> id, content |-> content]

\* content blocks of the native format
TextBlock(text) == [type |-> "text", text |-> text]
ToolUseBlock(id, name, input) == [type |-> "tool_use", id |-> id, name |-> name, input |-> input]
ToolResultBlock(id, content) == [type |-> "tool_result", tool_use_id |-> id, content |-> content]

\* extractText(content) of the direct variant
extractText(content) ==
  IF content.t = "string" THEN content.v
  ELSE IF content.t = "array"
  THEN LET texts == SelectSeq(content.v, LAMBDA p : p.type = "text")
       IN Join([i \in 1..Len(texts) |-> texts[i].text], "\n")
  ELSE ""

\* String(content || '') on the values that are not strings and not arrays
StringOf(content) ==
  IF Falsy(content) THEN ""
  ELSE IF content.t = "number" THEN "7"
  ELSE IF content.t = "boolean" THEN "true"
  ELSE "[object Object]"

\* convertContent(content): the parts of the samples carry no image, so a part
\* that is not text is left out
convertContent(content) ==
  IF content.t = "string" THEN content
  ELSE IF content.t # "array" THEN Str(StringOf(content))
  ELSE LET texts == SelectSeq(content.v, LAMBDA p : p.type = "text")
           parts == [i \in 1..Len(texts) |-> TextBlock(texts[i].text)]
       IN IF Len(parts) = 1 THEN Str(parts[1].text) ELSE Arr(parts)

\* merging keeps the newer content only
pushMessage_Overwrite(arr, role, content) ==
  IF Len(arr) > 0 /\ arr[Len(arr)].role = role
  THEN [arr EXCEPT ![Len(arr)].content = content]
  ELSE Append(arr, [role |-> role, content |-> content])

\* consecutive entries of one role are not merged
pushMessage_NoMerge(arr, role, content) == Append(arr, [role |-> role, content |-> content])

\* pushMessage(arr, role, content), returning the list
pushMessage(arr, role, content) ==
  IF Len(arr) > 0 /\ arr[Len(arr)].role = role
  THEN LET last == arr[Len(arr)]
           blocks == IF last.content.t = "string" THEN <<TextBlock(last.content.v)>>
                     ELSE last.content.v
           more == IF content.t = "string" THEN <<TextBlock(content.v)>>
                   ELSE IF content.t = "array" THEN content.v
                   ELSE <<>>
       IN [arr EXCEPT ![Len(arr)].content = Arr(blocks \o more)]
  ELSE Append(arr, [role |-> role, content |-> content])

\* the tool_use block is given a fresh id whatever the tool call's id is
toolUseBlock_FreshId(tc) ==
  LET fn == OrElse(Get(tc, "function"), EmptyObject)
      arguments == Get(fn, "arguments")
      args == IF arguments.t = "string"
              THEN (IF JSONparse(arguments.v).threw THEN EmptyObject ELSE JSONparse(arguments.v).v)
              ELSE IF arguments.t \in {"object", "array", "null"} THEN arguments
              ELSE EmptyObject
  IN ToolUseBlock(genId("toolu"), Get(fn, "name"), args)

\* the tool_use block convertMessages builds from one entry of msg.tool_calls
toolUseBlock(tc) ==
  LET fn == OrElse(Get(tc, "function"), EmptyObject)
      arguments == Get(fn, "arguments")
      args == IF arguments.t = "string"
              THEN (IF JSONparse(arguments.v).threw THEN EmptyObject ELSE JSONparse(arguments.v).v)
              ELSE IF arguments.t \in {"object", "array", "null"} THEN arguments
              ELSE EmptyObject
  IN ToolUseBlock(OrElse(Get(tc, "id"), genId("toolu")), Get(fn, "name"), args)

\* the content blocks convertMessages builds from an assistant message with
\* tool calls: its text, if any, then one tool_use block per call
assistantBlocks(msg) ==
  LET text == IF Falsy(msg.content) THEN ""
              ELSE IF msg.content.t = "string" THEN msg.content.v
              ELSE extractText(msg.content)
      calls == msg.tool_calls.v
  IN (IF text # "" THEN <<TextBlock(text)>> ELSE <<>>)
     \o [i \in 1..Len(calls) |-> toolUseBlock(calls[i])]

\* the tool_result block convertMessages builds from a tool message
toolResultBlock(msg) ==
  ToolResultBlock(OrElse(Get(msg, "tool_call_id"), Str("")),
                  IF msg.content.t = "string" THEN msg.content ELSE JSONstringify(msg.content))

\* the list is returned as it was built
ensureFirstUser_Skip(arr) == arr

\* the end of convertMessages: a list that does not start with a user entry is
\* given the placeholder as its first entry
ensureFirstUser(arr) ==
  IF Len(arr) > 0 /\ arr[1].role # "user"
  THEN <<[role |-> "user", content |-> Str("(continue)")]>> \o arr
  ELSE arr

\* isOAuthToken(token): the token contains "sk-ant-oat"
isOAuthToken(token) == token \in {"sk-ant-oat01"}

\* the identity text that opens the system prompt under an OAuth token
Identity == "You are Claude Code, Anthropic's official CLI for Claude."

\* the texts of the system messages convertMessages collects: empty ones are
\* left out
systemParts(messages) ==
  LET sys == SelectSeq(messages, LAMBDA m : m.role = Str("system"))
      texts == [i \in 1..Len(sys) |-> extractText(sys[i].content)]
  IN SelectSeq(texts, LAMBDA s : s # "")

\* the system prompt holds the last system text only
directSystemPrompt_LastOnly(messages, token) ==
  LET parts == systemParts(messages)
      last == IF Len(parts) > 0 THEN <<parts[Len(parts)]>> ELSE <<>>
  IN IF isOAuthToken(token)
     THEN Arr(<<[type |-> "text", text |-> Join(<<Identity>> \o last, "\n\n"),
                 cache_control |-> "ephemeral"]>>)
     ELSE IF Len(parts) > 0 THEN Arr(<<[type |-> "text", text |-> last[1]]>>)
     ELSE Undef

\* convertMessages(messages).system of the direct variant
directSystemPrompt(messages, token) ==
  LET parts == systemParts(messages)
      joined == IF Len(parts) > 0 THEN <<Join(parts, "\n\n")>> ELSE <<>>
  IN IF isOAuthToken(token)
     THEN Arr(<<[type |-> "text", text |-> Join(<<Identity>> \o joined, "\n\n"),
                 cache_control |-> "ephemeral"]>>)
     ELSE IF Len(parts) > 0 THEN Arr(<<[type |-> "text", text |-> joined[1]]>>)
     ELSE Undef

\* convertMessages(messages).messages of the direct variant
directConvertMessages(messages) ==
  LET conv[n \in 0..Len(messages)] ==
        IF n = 0 THEN <<>>
        ELSE LET msg == messages[n]
                 arr == conv[n - 1]
             IN IF msg.role = Str("system") THEN arr
                ELSE IF /\ msg.role = Str("assistant")
                        /\ Get(msg, "tool_calls").t = "array"
                        /\ Len(Get(msg, "tool_calls").v) > 0
                THEN pushMessage(arr, "assistant", Arr(assistantBlocks(msg)))
                ELSE IF msg.role = Str("tool")
                THEN pushMessage(arr, "user", Arr(<<toolResultBlock(msg)>>))
                ELSE pushMessage(arr, IF msg.role = Str("assistant") THEN "assistant" ELSE "user",
                                 convertContent(msg.content))
  IN ensureFirstUser(conv[Len(messages)])

\* extractResponseContent(contentBlocks)
extractResponseContent(contentBlocks) ==
  LET texts == SelectSeq(contentBlocks, LAMBDA b : b.type = "text" /\ b.text # "")
      tools == SelectSeq(contentBlocks, LAMBDA b : b.type = "tool_use")
  IN [text |-> Join([i \in 1..Len(texts) |-> texts[i].text], ""),
      toolCalls |-> [i \in 1..Len(tools) |->
                       ToolCall(OrElse(tools[i].id, genId("call")), Str(tools[i].name),
                                JSONstringify(OrElse(tools[i].input, EmptyObject)))]]

\* the message of the completion handleNonStreaming answers with
completionMessage(result) ==
  LET got == extractResponseContent(result.content)
      content == IF got.text = "" THEN Null ELSE Str(got.text)
  IN IF Len(got.toolCalls) > 0 THEN AssistantMsg(content, got.toolCalls)
     ELSE Msg(Str("assistant"), content)

\* a tool choice that names a function
NamedChoice(name) ==
  [t |-> "object", type |-> Str("function"), function |-> [t |-> "object", name |-> Str(name)]]

\* values of the tool_choice field of a body: absent, null, the four words, an
\* unknown word, the empty string, a named function and objects that name none
ToolChoices ==
  { Undef, Null, Str("none"), Str("auto"), Str("required"), Str("other"), Str(""),
    NamedChoice("tool_b"), [t |-> "object", type |-> Str("function")],
    [t |-> "object", type |-> Str("function"), function |-> [t |-> "object", name |-> Str("")]] }

\* required is passed on as auto
convertToolChoice_RequiredAuto(toolChoice) ==
  IF Falsy(toolChoice) THEN Undef
  ELSE IF toolChoice = Str("none") THEN [type |-> "none"]
  ELSE IF toolChoice = Str("auto") THEN [type |-> "auto"]
  ELSE IF toolChoice = Str("required") THEN [type |-> "auto"]
  ELSE IF /\ toolChoice.t = "object"
          /\ ~Nullish(Get(toolChoice, "function"))
          /\ ~Falsy(Get(toolChoice.function, "name"))
  THEN [type |-> "tool", name |-> toolChoice.function.name]
  ELSE [type |-> "auto"]

\* convertToolChoice(toolChoice)
convertToolChoice(toolChoice) ==
  IF Falsy(toolChoice) THEN Undef
  ELSE IF toolChoice = Str("none") THEN [type |-> "none"]
  ELSE IF toolChoice = Str("auto") THEN [type |-> "auto"]
  ELSE IF toolChoice = Str("required") THEN [type |-> "any"]
  ELSE IF /\ toolChoice.t = "object"
          /\ ~Nullish(Get(toolChoice, "function"))
          /\ ~Falsy(Get(toolChoice.function, "name"))
  THEN [type |-> "tool", name |-> toolChoice.function.name]
  ELSE [type |-> "auto"]

\* convertMessages of the direct variant raises a TypeError where it reads msg.role
\* of a null message or part.type of a null content part
directConvertThrows(messages) ==
  \E i \in 1..Len(messages) :
    \/ Nullish(messages[i])
    \/ /\ messages[i].role # Str("tool")
       /\ messages[i].content.t = "array"
       /\ \E j \in 1..Len(messages[i].content.v) : Nullish(messages[i].content.v[j])

\* the validation of the direct variant's chat handler
directInvalid(body) ==
  Falsy(body.messages) \/ body.messages.t # "array" \/ Len(body.messages.v) = 0

\* what the direct variant's chat handler does with a body before it calls out
directClass(body) ==
  IF directInvalid(body) THEN "invalid"
  ELSE IF directConvertThrows(body.messages.v) THEN "convert_throws"
  ELSE IF ~Falsy(body.stream) THEN "stream"
  ELSE "nonstream"

\* one body of each class
DirectInputs ==
  { CHOOSE b \in ChatBodies : directClass(b) = c : c \in {directClass(b) : b \in ChatBodies} }

\* non-streaming bodies with one user message and a tool choice
ChoiceBodies ==
  [ messages : {Arr(<<Msg(Str("user"), Str("hi"))>>)},
    stream : {Undef}, max_tokens : {Undef}, temperature : {Undef}, top_p : {Undef},
    tool_choice : ToolChoices ]

\* app.post('/v1/chat/completions') of the direct variant up to the fetch
directChatHandler(q0, body, token) ==
  LET q == [q0 EXCEPT !.route = "chat"]
  IN IF directInvalid(body) THEN json(q, 400)
     ELSE IF token = "" THEN json(q, 500)
     ELSE IF directConvertThrows(body.messages.v) THEN [q EXCEPT !.pc = "threw"]
     ELSE [q EXCEPT !.kind = IF ~Falsy(body.stream) THEN "stream" ELSE "json",
                    !.messages = body.messages.v,
                    !.anthropicMessages = directConvertMessages(body.messages.v),
                    !.system = directSystemPrompt(body.messages.v, token),
                    !.tool_choice = Get(body, "tool_choice"),
                    !.anthropicToolChoice = convertToolChoice(Get(body, "tool_choice")),
                    !.stages = @ \o <<"convert", "invoke">>,
                    !.invoked = @ + 1, !.pc = "calling"]

\* text increments the backends send
Texts == {"a", "b"}

\* fragments of an argument string the remote API sends
Fragments == {"", "{", "}"}

\* the tool_use blocks the remote API opens
ToolBlocks ==
  { [id |-> Str("toolu_1"), name |-> "get_weather"], [id |-> Undef, name |-> "get_weather"] }

\* event lines of the remote API's stream
UpstreamEvents ==
  {[type |-> "text_delta", text |-> t] : t \in Texts \cup {""}}
  \cup {[type |-> "tool_use", id |-> b.id, name |-> b.name] : b \in ToolBlocks}
  \cup {[type |-> "input_json_delta", partial_json |-> f] : f \in Fragments}
  \cup {[type |-> "message_delta", stop_reason |-> r] : r \in StopReasons \cup {Null}}
  \cup {[type |-> "other"], [type |-> "malformed"]}

\* the finish reason handleStreaming and handleNonStreaming compute
finishReason(stopReason) ==
  IF stopReason = Str("tool_use") THEN "tool_calls" ELSE mapStopReason(stopReason)

\* stop_reason fields of the remote API's results: the reasons it documents, a
\* reason the bridge does not know, the empty string, an absent field, null and a
\* number
ResultStopReasons ==
  { Str("end_turn"), Str("stop_sequence"), Str("max_tokens"), Str("tool_use"),
    Str("refusal"), Str(""), Undef, Null, Num(0) }

\* the content of the remote API's results: nothing, a text, a tool call, and a
\* text with two tool calls of which the second has no id and no input
ResultContents ==
  { Undef,
    Arr(<<TextBlock("a")>>),
    Arr(<<ToolUseBlock(Str("toolu_1"), "get_weather", CityObject)>>),
    Arr(<<TextBlock("a"), ToolUseBlock(Str("toolu_1"), "get_weather", CityObject),
          ToolUseBlock(Undef, "get_weather", Undef)>>) }

\* the results with a stop reason of stops and a content of contents
Results(stops, contents) == [stop_reason : stops, content : contents]

\* the streaming handler sends the headers and the role chunk before it calls out
onFetch_HeadersFirst(q, got, result, errBody) ==
  IF got # "ok"
  THEN IF q.kind = "stream"
       THEN [end(sendSSE(q, RoleChunk)) EXCEPT
               !.pc = "done", !.err = got,
               !.errBody = IF got = "non2xx" THEN errBody ELSE 0,
               !.errCarried = IF got = "non2xx" THEN substring(errBody, 500) ELSE 0]
       ELSE [json(q, 502) EXCEPT
               !.err = got,
               !.errBody = IF got = "non2xx" THEN errBody ELSE 0,
               !.errCarried = IF got = "non2xx" THEN substring(errBody, 500) ELSE 0]
  ELSE IF q.kind = "stream" THEN [sendSSE(q, RoleChunk) EXCEPT !.pc = "reading"]
  ELSE [json(q, 200) EXCEPT
          !.stopReason = result.stop_reason,
          !.finish = finishReason(result.stop_reason),
          !.resultContent = OrElse(result.content, Arr(<<>>)).v,
          !.message = completionMessage([result EXCEPT !.content = OrElse(@, Arr(<<>>)).v])]

\* callAnthropic returns or raises; got is "ok", "non2xx" (with a body of errBody
\* characters) or "network_error".  handleStreaming then writes the role chunk,
\* handleNonStreaming the completion computed from result; an exception reaches
\* the handler's catch before any header is sent
onFetch(q, got, result, errBody) ==
  IF got # "ok"
  THEN [json(q, 502) EXCEPT
          !.err = got,
          !.errBody = IF got = "non2xx" THEN errBody ELSE 0,
          !.errCarried = IF got = "non2xx" THEN substring(errBody, 500) ELSE 0]
  ELSE IF q.kind = "stream" THEN [sendSSE(q, RoleChunk) EXCEPT !.pc = "reading"]
  ELSE [json(q, 200) EXCEPT
          !.stopReason = result.stop_reason,
          !.finish = finishReason(result.stop_reason),
          !.resultContent = OrElse(result.content, Arr(<<>>)).v,
          !.message = completionMessage([result EXCEPT !.content = OrElse(@, Arr(<<>>)).v])]

\* argument fragments go out on the index of the first tool call
onEvent_ArgsOnFirst(q, ev) ==
  IF ev.type = "text_delta"
  THEN IF ev.text # "" THEN sendSSE(q, ContentChunk(ev.text)) ELSE q
  ELSE IF ev.type = "tool_use"
  THEN LET k == q.toolCallIndex + 1
       IN sendSSE([q EXCEPT !.toolCallIndex = k,
                            !.activeToolCalls = Append(@, [id |-> ev.id, name |-> ev.name])],
                  ToolChunk(k, OrElse(ev.id, genId("call")), ev.name))
  ELSE IF ev.type = "input_json_delta" THEN sendSSE(q, ArgsChunk(0, ev.partial_json))
  ELSE IF ev.type = "message_delta" /\ ~Falsy(ev.stop_reason)
  THEN [q EXCEPT !.stopReason = ev.stop_reason]
  ELSE q

\* the index of a tool call is not advanced
onEvent_ReuseIndex(q, ev) ==
  IF ev.type = "text_delta"
  THEN IF ev.text # "" THEN sendSSE(q, ContentChunk(ev.text)) ELSE q
  ELSE IF ev.type = "tool_use"
  THEN sendSSE([q EXCEPT !.toolCallIndex = 0,
                         !.activeToolCalls = <<[id |-> ev.id, name |-> ev.name]>>],
               ToolChunk(0, OrElse(ev.id, genId("call")), ev.name))
  ELSE IF ev.type = "input_json_delta"
  THEN sendSSE(q, ArgsChunk(q.toolCallIndex, ev.partial_json))
  ELSE IF ev.type = "message_delta" /\ ~Falsy(ev.stop_reason)
  THEN [q EXCEPT !.stopReason = ev.stop_reason]
  ELSE q

\* the first stop reason observed is kept
onEvent_FirstReason(q, ev) ==
  IF ev.type = "text_delta"
  THEN IF ev.text # "" THEN sendSSE(q, ContentChunk(ev.text)) ELSE q
  ELSE IF ev.type = "tool_use"
  THEN LET k == q.toolCallIndex + 1
       IN sendSSE([q EXCEPT !.toolCallIndex = k,
                            !.activeToolCalls = Append(@, [id |-> ev.id, name |-> ev.name])],
                  ToolChunk(k, OrElse(ev.id, genId("call")), ev.name))
  ELSE IF ev.type = "input_json_delta"
  THEN sendSSE(q, ArgsChunk(q.toolCallIndex, ev.partial_json))
  ELSE IF ev.type = "message_delta" /\ ~Falsy(ev.stop_reason) /\ q.stopReason = Str("stop")
  THEN [q EXCEPT !.stopReason = ev.stop_reason]
  ELSE q

\* a line that is no event is answered with an empty content chunk
onEvent_SkippedEmits(q, ev) ==
  IF ev.type = "text_delta"
  THEN IF ev.text # "" THEN sendSSE(q, ContentChunk(ev.text)) ELSE q
  ELSE IF ev.type = "tool_use"
  THEN LET k == q.toolCallIndex + 1
       IN sendSSE([q EXCEPT !.toolCallIndex = k,
                            !.activeToolCalls = Append(@, [id |-> ev.id, name |-> ev.name])],
                  ToolChunk(k, OrElse(ev.id, genId("call")), ev.name))
  ELSE IF ev.type = "input_json_delta"
  THEN sendSSE(q, ArgsChunk(q.toolCallIndex, ev.partial_json))
  ELSE IF ev.type = "message_delta" /\ ~Falsy(ev.stop_reason)
  THEN [q EXCEPT !.stopReason = ev.stop_reason]
  ELSE sendSSE(q, ContentChunk(""))

\* one event line of the read loop of handleStreaming
onEvent(q, ev) ==
  IF ev.type = "text_delta"
  THEN IF ev.text # "" THEN sendSSE(q, ContentChunk(ev.text)) ELSE q
  ELSE IF ev.type = "tool_use"
  THEN LET k == q.toolCallIndex + 1
       IN sendSSE([q EXCEPT !.toolCallIndex = k,
                            !.activeToolCalls = Append(@, [id |-> ev.id, name |-> ev.name])],
                  ToolChunk(k, OrElse(ev.id, genId("call")), ev.name))
  ELSE IF ev.type = "input_json_delta"
  THEN sendSSE(q, ArgsChunk(q.toolCallIndex, ev.partial_json))
  ELSE IF ev.type = "message_delta" /\ ~Falsy(ev.stop_reason)
  THEN [q EXCEPT !.stopReason = ev.stop_reason]
  ELSE q

\* the finally block of handleStreaming, reached when the read loop ends (how =
\* "done") or reader.read() raises (how = "error"); the exception then reaches the
\* handler's catch, which finds the headers sent and writes nothing
onStreamEnd(q, how) ==
  [end(write(sendSSE(q, FinishChunk(finishReason(q.stopReason))), DoneFrame))
     EXCEPT !.pc = "done", !.readFailed = (how = "error")]

\* ------------------------------------------------------------ reads, byte by byte

\* the bytes of a stream: the letter a, the line feed, and the two bytes of the
\* letter e with acute accent in UTF-8
Bytes == {"a", "\n", "c3", "a9"}

\* the chunks a read may return
Chunks == SeqsUpTo(Bytes, MaxBytes) \ {<<>>}

\* the characters: that letter, and U+FFFD, which a decoder puts for bytes that
\* are no character
Eacute == "<e9>"
Replacement == "<fffd>"

\* b is the beginning of a UTF-8 text, possibly cut inside a character
ValidPrefix(b) ==
  \A i \in 1..Len(b) :
    /\ b[i] = "a9" => (i > 1 /\ b[i - 1] = "c3")
    /\ (b[i] = "c3" /\ i < Len(b)) => b[i + 1] = "a9"

\* Buffer.prototype.toString(): the characters of the bytes of one chunk; the
\* bytes of a character that is not whole in the chunk become U+FFFD
toString(b) ==
  LET D[n \in 0..Len(b)] ==
        IF n = 0 THEN <<>>
        ELSE D[n - 1] \o
             (IF b[n] = "c3"
              THEN (IF n < Len(b) /\ b[n + 1] = "a9" THEN <<Eacute>> ELSE <<Replacement>>)
              ELSE IF b[n] = "a9"
              THEN (IF n > 1 /\ b[n - 1] = "c3" THEN <<>> ELSE <<Replacement>>)
              ELSE <<b[n]>>)
  IN D[Len(b)]

\* decoder.decode(value, {stream: true}): the bytes of a character that is not
\* whole at the end of value are kept for the next call
decode(held, value) ==
  LET all == held \o value
      cut == Len(all) > 0 /\ all[Len(all)] = "c3"
  IN [chars |-> toString(IF cut THEN SubSeq(all, 1, Len(all) - 1) ELSE all),
      held |-> IF cut THEN <<"c3">> ELSE <<>>]

\* buffer.split('\n') and lines.pop(): the lines that are complete and the rest
split(chars) ==
  LET S[n \in 0..Len(chars)] ==
        IF n = 0 THEN [lines |-> <<>>, rest |-> <<>>]
        ELSE IF chars[n] = "\n"
        THEN [lines |-> Append(S[n - 1].lines, S[n - 1].rest), rest |-> <<>>]
        ELSE [lines |-> S[n - 1].lines, rest |-> Append(S[n - 1].rest, chars[n])]
  IN S[Len(chars)]

\* proc.stdout.on('data') of the streaming path, data being the bytes of one
\* read; a line is written as the delta.text of its event
onData(q, data) ==
  LET s == split(q.pending \o toString(data))
      H[n \in 0..Len(s.lines)] ==
        IF n = 0 THEN q ELSE handleStreamEvent(H[n - 1], Join(s.lines[n], ""))
  IN [H[Len(s.lines)] EXCEPT !.pending = s.rest, !.buffer = Join(s.rest, "")]

\* one turn of the read loop of handleStreaming, value being the bytes
\* reader.read() returned; a line is written as the text of its text_delta event
onRead(q, value) ==
  LET d == decode(q.held, value)
      s == split(q.pending \o d.chars)
      H[n \in 0..Len(s.lines)] ==
        IF n = 0 THEN q
        ELSE onEvent(H[n - 1], [type |-> "text_delta", text |-> Join(s.lines[n], "")])
  IN [H[Len(s.lines)] EXCEPT !.pending = s.rest, !.held = d.held]

\* ------------------------------------------------------------ the server

VARIABLES
  variant,          \* "process" | "direct": the backend, fixed at start
  authToken,        \* AUTH_TOKEN of the direct variant ("" when not configured)
  activeProcesses,  \* the counter of the process variant's limiter
  req               \* the bag of the requests received so far

vars == <<variant, authToken, activeProcesses, req>>

Init ==
  /\ variant \in {"process", "direct"}
  /\ authToken \in (IF variant = "direct" THEN {"", "sk-ant-api"} ELSE {""})
  /\ activeProcesses = 0
  /\ req = EmptyBag

\* the requests received so far, without their multiplicities
Requests == BagToSet(req)

RECURSIVE Sum(_, _)
\* the sum of f[q] over the requests of S, each counted as often as it occurs
Sum(f, S) ==
  IF S = {} THEN 0
  ELSE LET q == CHOOSE x \in S : TRUE IN req[q] * f[q] + Sum(f, S \ {q})

\* the lines the backend of q has sent, but those with a stop reason
Produced(q) == Len(q.seen) + q.late

\* the backends may produce another event, budget being what a run allows
MayProduce(budget) == Sum([q \in Requests |-> Produced(q)], Requests) < budget

\* another client may drop its connection
MayDrop == Sum([q \in Requests |-> IF q.client = "closed" THEN 1 ELSE 0], Requests) < MaxDrops

Cur(q) == [q |-> q, n |-> activeProcesses]

\* a request is received and its handler runs up to its first await
Receive(st) ==
  /\ req' = req (+) SetToBag({st.q})
  /\ activeProcesses' = st.n
  /\ UNCHANGED <<variant, authToken>>

\* the index of the open tool call is one variable of the server, not one of
\* each stream: a callback's assignment to it shows in every request
Step_SharedIndex(q, st) ==
  /\ LET share(r) == [r EXCEPT !.toolCallIndex = st.q.toolCallIndex]
     IN req' = BagOfAll(share, req (-) SetToBag({q})) (+) SetToBag({st.q})
  /\ activeProcesses' = st.n
  /\ UNCHANGED <<variant, authToken>>

\* a callback of the request q runs
Step(q, st) ==
  /\ req' = (req (-) SetToBag({q})) (+) SetToBag({st.q})
  /\ activeProcesses' = st.n
  /\ UNCHANGED <<variant, authToken>>

\* POST /v1/chat/completions is received by the process variant
ChatRequest(limit) ==
  /\ variant = "process" /\ BagCardinality(req) < limit
  /\ \E body \in ChatInputs, spawn \in {"throw", "fail", "ok"} :
       Receive(chatHandler([Cur(NewReq) EXCEPT !.q.invalid = chatClass(body) = "invalid"],
                           body, spawn))

\* POST /v1/completions is received by the process variant
LegacyRequest(limit) ==
  /\ variant = "process" /\ BagCardinality(req) < limit
  /\ \E prompt \in PromptInputs, spawn \in {"throw", "fail", "ok"} :
       Receive(legacyHandler([Cur(NewReq) EXCEPT !.q.invalid = legacyInvalid(prompt)],
                             prompt, spawn))

\* the subprocess of a streaming request writes to its stdout; texts are the text
\* increments it may send
StdoutData(q, lines, budget) ==
  /\ q.kind = "stream" /\ q.alive \in {"running", "signalled"}
  /\ \E chunk \in [text : lines \cup {""}, nl : BOOLEAN] \ {[text |-> "", nl |-> FALSE]} :
       /\ IF chunk.text = "" THEN q.buffer # "" ELSE q.buffer = "" /\ MayProduce(budget)
       /\ Step(q, [Cur(q) EXCEPT !.q =
                    [onStdoutData(@, chunk) EXCEPT
                       !.seen = IF chunk.text = "" \/ q.ended THEN @
                                ELSE IF chunk.text \in NonEvents THEN Append(@, [type |-> "malformed"])
                                ELSE Append(@, [type |-> "text_delta", text |-> chunk.text]),
                       !.late = IF chunk.text # "" /\ q.ended THEN @ + 1 ELSE @]])

\* the subprocess exits; its 'close' event becomes due
ProcExit(q) ==
  /\ q.alive \in {"running", "signalled"}
  /\ \E code \in {0, 1} :
       Step(q, [Cur(q) EXCEPT !.q = [@ EXCEPT !.alive = "dead", !.exitCode = code,
                                              !.closePending = TRUE]])

\* the timeout option of spawn elapses: node sends the child SIGTERM
SpawnTimeout(q) ==
  /\ q.alive = "running" /\ ~q.timedOut
  /\ Step(q, [Cur(q) EXCEPT !.q = [kill(@) EXCEPT !.timedOut = TRUE]])

\* the timeout option of spawn elapses and the signal cannot be sent: node
\* emits the 'error' event of the child, which keeps running
KillFails(q) ==
  /\ variant = "process" /\ q.alive = "running" /\ ~q.timedOut /\ ~q.errPending
  /\ Step(q, [Cur(q) EXCEPT !.q = [@ EXCEPT !.timedOut = TRUE, !.errPending = TRUE]])

\* the 'close' event of a streaming request's subprocess; node emits the 'error'
\* event of a failed spawn before it
StreamClose(q) ==
  /\ variant = "process" /\ q.kind = "stream" /\ q.closePending /\ ~q.errPending
  /\ Step(q, onStreamClose(Cur(q)))

\* the 'error' event of a streaming request's subprocess; a line the subprocess
\* has not completed when the callback ends the response counts as sent after it
StreamError(q) ==
  /\ variant = "process" /\ q.kind = "stream" /\ q.errPending
  /\ LET st == onStreamError(Cur(q))
         cut == ~q.ended /\ st.q.ended /\ q.buffer # ""
     IN Step(q, [st EXCEPT !.q.seen = IF cut THEN SubSeq(@, 1, Len(@) - 1) ELSE @,
                           !.q.late = IF cut THEN @ + 1 ELSE @])

\* the client's connection terminates while its request is being served
ClientClose(q) ==
  /\ MayDrop /\ q.client = "open" /\ q.pc \in {"active", "calling", "reading"}
  /\ LET st == [Cur(q) EXCEPT !.q.client = "closed"]
     IN Step(q, IF variant = "process" /\ q.kind = "stream" THEN onResClose(st) ELSE st)

\* the timer of a non-streaming request elapses
TimerFire(q) ==
  /\ q.kind = "json" /\ q.timer
  /\ Step(q, onTimer(Cur(q)))

\* the 'close' event of a non-streaming request's subprocess
Close(q, outs, stderrs) ==
  /\ variant = "process" /\ q.kind = "json" /\ q.closePending /\ ~q.errPending
  /\ \E out \in outs, stderr \in stderrs : Step(q, onClose(Cur(q), out, stderr))

\* the 'error' event of a non-streaming request's subprocess
Error(q) ==
  /\ variant = "process" /\ q.kind = "json" /\ q.errPending
  /\ Step(q, onError(Cur(q)))

\* POST /v1/chat/completions is received by the direct variant
DirectRequest(limit, bodies) ==
  /\ variant = "direct" /\ BagCardinality(req) < limit
  /\ \E body \in bodies :
       Receive([Cur(NewReq) EXCEPT !.q = directChatHandler([@ EXCEPT !.invalid = directInvalid(body)],
                                                           body, authToken)])

\* the outbound call of a request returns one of results, or fails, a non-2xx
\* response having a body of one of the lengths of bodies
Fetch(q, results, bodies) ==
  /\ q.pc = "calling"
  /\ \E got \in {"ok", "non2xx", "network_error"}, result \in results, errBody \in bodies :
       Step(q, [Cur(q) EXCEPT !.q = onFetch(@, got, result, errBody)])

\* ev is an event that carries a stop reason
Terminal(ev) == ev.type = "message_delta" /\ ~Falsy(ev.stop_reason)

\* the read loop handles one upstream line, one of events; the remote API sends
\* at most budget events with a payload and at most terminal with a stop reason
Event(q, events, budget, terminal) ==
  /\ q.pc = "reading"
  /\ \E ev \in events :
       /\ ev.type # "message_delta" => MayProduce(budget)
       /\ Terminal(ev) => Len(q.reasons) < terminal
       /\ Step(q, [Cur(q) EXCEPT !.q =
                    [onEvent(@, ev) EXCEPT
                       !.seen = IF ev.type # "message_delta" THEN Append(@, ev) ELSE @,
                       !.reasons = IF Terminal(ev) THEN Append(@, ev.stop_reason) ELSE @]])

\* the upstream body ends, or reading it fails
StreamEnd(q) ==
  /\ q.pc = "reading"
  /\ \E how \in {"done", "error"} : Step(q, [Cur(q) EXCEPT !.q = onStreamEnd(@, how)])

\* the subprocess of a streaming request writes to its stdout and node hands
\* the handler some of the bytes; the subprocess writes at most budget bytes
Data(q, budget) ==
  /\ variant = "process" /\ q.kind = "stream" /\ q.alive \in {"running", "signalled"}
  /\ \E data \in Chunks :
       /\ Len(q.got) + Len(data) <= budget /\ ValidPrefix(q.got \o data)
       /\ Step(q, [Cur(q) EXCEPT !.q = [onData(@, data) EXCEPT !.got = @ \o data]])

\* reader.read() returns some of the bytes of the upstream body, which has at
\* most budget bytes
Read(q, budget) ==
  /\ variant = "direct" /\ q.pc = "reading"
  /\ \E value \in Chunks :
       /\ Len(q.got) + Len(value) <= budget /\ ValidPrefix(q.got \o value)
       /\ Step(q, [Cur(q) EXCEPT !.q = [onRead(@, value) EXCEPT !.got = @ \o value]])

\* one event of each kind that carries a payload, and those with a stop reason:
\* what the backends send while several requests are served
SomeEvents ==
  {CHOOSE ev \in UpstreamEvents : ev.type = t /\ ev # [type |-> "text_delta", text |-> ""] :
     t \in {"text_delta", "tool_use", "input_json_delta"}}
  \cup {ev \in UpstreamEvents : ev.type = "message_delta"}

Next ==
  \/ ChatRequest(NumReq) \/ LegacyRequest(NumReq) \/ DirectRequest(NumReq, DirectInputs)
  \/ \E q \in Requests : StdoutData(q, {"a"}, MaxContent)
  \/ \E q \in Requests : ProcExit(q)
  \/ \E q \in Requests : SpawnTimeout(q)
  \/ \E q \in Requests : StreamClose(q)
  \/ \E q \in Requests : StreamError(q)
  \/ \E q \in Requests : ClientClose(q)
  \/ \E q \in Requests : TimerFire(q)
  \/ \E q \in Requests : Close(q, SomeOutputs, {501})
  \/ \E q \in Requests : Error(q)
  \/ \E q \in Requests : Fetch(q, Results({Str("end_turn")}, {Arr(<<TextBlock("a")>>)}), {501})
  \/ \E q \in Requests : Event(q, SomeEvents, MaxContent, 1)
  \/ \E q \in Requests : StreamEnd(q)

\* the server, receiving at most NumReq requests; the payloads of the backends'
\* events are one of each kind
Spec == Init /\ [][Next]_vars

NextOne ==
  \/ ChatRequest(1) \/ LegacyRequest(1) \/ DirectRequest(1, DirectInputs \cup ChoiceBodies)
  \/ \E q \in Requests : StdoutData(q, Texts \cup NonEvents, MaxEvents)
  \/ \E q \in Requests : ProcExit(q)
  \/ \E q \in Requests : SpawnTimeout(q)
  \/ \E q \in Requests : KillFails(q)
  \/ \E q \in Requests : StreamClose(q)
  \/ \E q \in Requests : StreamError(q)
  \/ \E q \in Requests : ClientClose(q)
  \/ \E q \in Requests : TimerFire(q)
  \/ \E q \in Requests : Close(q, Outputs, ErrBodies)
  \/ \E q \in Requests : Error(q)
  \/ \E q \in Requests : Fetch(q, Results(ResultStopReasons, {Arr(<<TextBlock("a")>>)}), ErrBodies)
  \/ \E q \in Requests : Event(q, UpstreamEvents, MaxEvents, MaxReasons)
  \/ \E q \in Requests : StreamEnd(q)

\* the server, receiving a single request, with every payload
SpecOne == Init /\ [][NextOne]_vars

\* the messages of a body that opens a conversation: every role (system
\* messages of two texts and of none), an unknown
\* role, an assistant with tool calls (with text, without an id, with arguments
\* that do not parse, with arguments that parse to null), tool results, and
\* content in parts
ConvMsgs ==
  { Msg(Str("user"), Str("hi")),
    Msg(Str("system"), Str("sys")),
    Msg(Str("system"), Str("be brief")),
    Msg(Str("system"), Str("")),
    Msg(Str("assistant"), Str("ok")),
    Msg(Str("function"), Str("x")),
    Msg(Str("user"), Arr(<<Part("text", "p"), Part("image_url", "")>>)),
    AssistantMsg(Null, <<ToolCall(Str("call_1"), Str("get_weather"), Str("{\"city\":\"Prague\"}"))>>),
    AssistantMsg(Str("ok"), <<ToolCall(Undef, Str("get_weather"), Str("{"))>>),
    AssistantMsg(Null, <<ToolCall(Str("call_2"), Str("get_weather"), Str("null"))>>),
    ToolMsg(Str("call_1"), Str("res")),
    ToolMsg(Undef, Null) }

\* the bodies that open a conversation
ConvBodies ==
  [ messages : {Arr(q) : q \in SeqsUpTo(ConvMsgs, MaxTurns)},
    stream : {Undef}, max_tokens : {Undef}, temperature : {Undef}, top_p : {Undef} ]

\* the client answers the tool calls of the completion of q: it sends the
\* conversation again with the assistant message it received and one tool
\* message per call (test-e2e.sh, test 3)
FollowUp(q) ==
  /\ variant = "direct" /\ BagCardinality(req) < 2
  /\ q.kind = "json" /\ q.status = 200 /\ Get(q.message, "tool_calls").t = "array"
  /\ LET calls == q.message.tool_calls.v
         body == [messages |-> Arr(<<Msg(Str("user"), Str("hi")), q.message>>
                                   \o [i \in 1..Len(calls) |-> ToolMsg(calls[i].id, Str("res"))]),
                  stream |-> Undef, max_tokens |-> Undef, temperature |-> Undef, top_p |-> Undef]
     IN Receive([Cur(NewReq) EXCEPT !.q = directChatHandler([@ EXCEPT !.answers = calls],
                                                            body, authToken)])

InitConv ==
  /\ variant = "direct"
  /\ authToken \in {"sk-ant-api", "sk-ant-oat01"}
  /\ activeProcesses = 0
  /\ req = EmptyBag

NextConv ==
  \/ DirectRequest(1, ConvBodies)
  \/ \E q \in Requests : Fetch(q, Results({Str("end_turn"), Str("tool_use")}, ResultContents), {501})
  \/ \E q \in Requests : FollowUp(q)

\* a conversation with the direct variant: a first request of at most MaxTurns
\* messages, its completion, and the request that answers the completion's tool
\* calls
SpecConv == InitConv /\ [][NextConv]_vars

\* the events sent to streams that are served at once: a text, a tool_use
\* block, an argument fragment and a stop reason
SharedEvents ==
  { [type |-> "text_delta", text |-> "a"],
    [type |-> "tool_use", id |-> Str("toolu_1"), name |-> "get_weather"],
    [type |-> "input_json_delta", partial_json |-> "{"],
    [type |-> "message_delta", stop_reason |-> Str("tool_use")] }

NextTwo ==
  \/ ChatRequest(2) \/ DirectRequest(2, DirectInputs)
  \/ \E q \in Requests : StdoutData(q, Texts, MaxShared)
  \/ \E q \in Requests : ProcExit(q)
  \/ \E q \in Requests : StreamClose(q)
  \/ \E q \in Requests : StreamError(q)
  \/ \E q \in Requests : Fetch(q, Results({Str("end_turn")}, {Arr(<<TextBlock("a")>>)}), {501})
  \/ \E q \in Requests : Event(q, SharedEvents, MaxShared, 1)
  \/ \E q \in Requests : StreamEnd(q)

\* the server, receiving two requests whose streams are open at once
SpecTwo == Init /\ [][NextTwo]_vars

NextSplit ==
  \/ ChatRequest(1) \/ DirectRequest(1, DirectInputs)
  \/ \E q \in Requests : Data(q, MaxBytes)
  \/ \E q \in Requests : ProcExit(q)
  \/ \E q \in Requests : StreamClose(q)
  \/ \E q \in Requests : StreamError(q)
  \/ \E q \in Requests : Fetch(q, Results({Str("end_turn")}, {Arr(<<TextBlock("a")>>)}), {501})
  \/ \E q \in Requests : Read(q, MaxBytes)
  \/ \E q \in Requests : StreamEnd(q)

\* the server, receiving a single request, the reads of whose stream are
\* followed byte by byte
SpecSplit == Init /\ [][NextSplit]_vars

\* ------------------------------------------------------------ properties

\* a step in which a request is received
Arrives == BagCardinality(req') = BagCardinality(req) + 1

\* the request received in such a step, as its handler leaves it
Arrived == CHOOSE q \in BagToSet(req') : CopiesIn(q, req') > CopiesIn(q, req)

\* the handler of a received request of the process variant called acquireSlot()
Attempted(q) == ~q.invalid /\ (q.acquired \/ q.status = 429)

\* requests that hold a slot: acquired and not yet released
Holders == Sum([q \in Requests |-> IF q.acquired /\ q.releases = 0 THEN 1 ELSE 0], Requests)

\* calls of releaseSlot() made so far
TotalReleases == Sum([q \in Requests |-> q.releases], Requests)

\* C1: in the process variant the in-flight counter stays in 0..MAX_CONCURRENT
\* whatever the interleaving of chat and legacy requests; a handler that calls
\* acquireSlot is admitted (counter + 1) exactly when the counter is below
\* MAX_CONCURRENT, and is answered 429 with the counter unchanged when the
\* counter equals MAX_CONCURRENT.
C1_CounterBounded ==
  /\ [](activeProcesses \in 0..MAX_CONCURRENT)
  /\ [][(Arrives /\ variant = "process") =>
          LET q == Arrived
          IN /\ q.acquired =>
                  /\ activeProcesses < MAX_CONCURRENT
                  /\ activeProcesses' = activeProcesses + 1 - q.releases
             /\ ~q.acquired => activeProcesses' = activeProcesses
             /\ Attempted(q) =>
                  IF activeProcesses < MAX_CONCURRENT
                  THEN q.acquired /\ q.status # 429
                  ELSE ~q.acquired /\ q.status = 429]_vars

\* MAX_CONCURRENT executions are in flight and a further request was answered 429
C1_Witness ==
  /\ variant = "process"
  /\ activeProcesses = MAX_CONCURRENT
  /\ Holders = MAX_CONCURRENT
  /\ \E q \in Requests : q.status = 429 /\ ~q.acquired

\* C2: a request calls releaseSlot at most once, and only for a slot it acquired,
\* whichever of its exit paths run (completion, process error, disconnect, timer);
\* so the counter is the number of requests that still hold a slot and no request
\* frees the slot of another.
C2_ReleaseAtMostOnce ==
  /\ \A q \in Requests : q.releases <= (IF q.acquired THEN 1 ELSE 0)
  /\ variant = "process" => activeProcesses = Holders

\* a streaming request released by the disconnect of its client, whose 'close'
\* callback has run afterwards, next to another request that holds its slot
C2_Witness ==
  /\ \E q \in Requests :
       /\ q.kind = "stream" /\ q.client = "closed" /\ q.releases = 1
       /\ q.alive = "dead" /\ ~q.closePending
  /\ activeProcesses > 0

\* C3: every slot that was acquired is released in the end: once every admitted
\* request has ended (sent its response or left its handler), the counter is 0.
C3_AllEndedCounterZero ==
  (\A q \in Requests : q.acquired => q.pc \in {"done", "threw"}) => activeProcesses = 0

C5_RejectedNotRun ==
  /\ [](\A q \in Requests :
          q.status = 429 =>
            /\ q.pc = "done" /\ q.ended /\ q.kind = "none"
            /\ ~q.acquired /\ q.releases = 0 /\ q.invoked = 0
            /\ q.alive = "none" /\ ~q.timer /\ ~q.closePending /\ ~q.errPending)
  /\ [][(Arrives /\ Arrived.status = 429) =>
          activeProcesses' = activeProcesses /\ activeProcesses = MAX_CONCURRENT]_vars
  /\ [][\A q \in Requests : q.status = 429 => CopiesIn(q, req') >= CopiesIn(q, req)]_vars

\* a legacy request was answered 429 and every slot has been released since
C5_Witness ==
  /\ \E q \in Requests : q.status = 429 /\ q.route = "legacy"
  /\ activeProcesses = 0
  /\ TotalReleases = MAX_CONCURRENT

\* C6: in both variants a chat request whose body fails validation is answered
\* 400 before any backend resource is touched: no slot is acquired, the counter
\* is as it was before the request, no subprocess is spawned and no outbound
\* call is made, then or later.
C6_InvalidRejectedFirst ==
  /\ [](\A q \in Requests :
          q.invalid =>
            /\ q.status = 400 /\ q.pc = "done" /\ q.ended
            /\ ~q.acquired /\ q.releases = 0 /\ q.invoked = 0
            /\ q.alive = "none" /\ ~q.timer /\ ~q.closePending /\ ~q.errPending)
  /\ [][(Arrives /\ Arrived.invalid) => activeProcesses' = activeProcesses]_vars

\* an invalid chat request was answered 400 while other executions were in flight
C6_Witness ==
  /\ variant = "process"
  /\ activeProcesses > 0
  /\ \E q \in Requests : q.invalid /\ q.route = "chat" /\ q.status = 400

\* the place of a frame in the lifecycle of an event stream
Stage(frame) ==
  CASE frame.kind = "role" -> 0
    [] frame.kind \in {"content", "tool", "args"} -> 1
    [] frame.kind = "error" -> 2
    [] frame.kind = "finish" -> 3
    [] frame.kind = "done" -> 4

\* the frames of kind k among the frames f
Of(f, k) == {i \in 1..Len(f) : f[i].kind = k}

\* C7: the frames of every event stream come in lifecycle order: the role chunk
\* is the first frame and is written once, before anything the backend produces
\* is relayed; content, tool-call and argument chunks follow it; the finish chunk
\* comes after them and the [DONE] line after the finish chunk.
C7_StreamLifecycleOrder ==
  \A q \in Requests :
    q.kind = "stream" =>
      LET f == q.frames
      IN /\ f # <<>> => f[1] = RoleChunk
         /\ Cardinality(Of(f, "role")) <= 1
         /\ Cardinality(Of(f, "finish")) <= 1
         /\ Cardinality(Of(f, "done")) <= 1
         /\ \A i, j \in 1..Len(f) : i < j => Stage(f[i]) <= Stage(f[j])

\* a stream that went through every stage of the lifecycle
C7_Witness ==
  \E q \in Requests :
    /\ q.kind = "stream" /\ q.ended
    /\ Len(q.frames) = 4
    /\ q.frames[1] = RoleChunk /\ q.frames[2].kind \in {"content", "tool"}
    /\ q.frames[3].kind = "finish" /\ q.frames[4] = DoneFrame

\* C8: whatever ends an event stream that was opened to a client that is still
\* connected (completion, 'close', the 'error' event, a spawn that raises, a forced
\* termination), its last two frames are a finish chunk and the [DONE] line, each
\* written once.
C8_OneFinishThenDone ==
  \A q \in Requests :
    (q.kind = "stream" /\ q.frames # <<>> /\ q.ended /\ q.client = "open") =>
      LET f == q.frames
      IN /\ Len(f) >= 2
         /\ f[Len(f)] = DoneFrame /\ f[Len(f) - 1].kind = "finish"
         /\ Cardinality(Of(f, "finish")) = 1 /\ Cardinality(Of(f, "done")) = 1

\* the 'error' callback of the subprocess has ended the stream: its error frame
\* is followed by the [DONE] line
FinishedByError(q) ==
  \E i \in Of(q.frames, "error") : i < Len(q.frames) /\ q.frames[i + 1] = DoneFrame

\* the backend of a streaming request ended abnormally: its subprocess exited with
\* a non-zero code and the 'close' callback has run (no 'error' event had ended
\* the stream before), or reading the upstream body raised
Abnormal(q) ==
  \/ /\ variant = "process" /\ q.alive = "dead" /\ q.exitCode # 0 /\ ~q.closePending
     /\ ~FinishedByError(q)
  \/ variant = "direct" /\ q.readFailed

\* the finish reason the recorded stop reason asks for
ExpectedFinish(q) ==
  IF variant = "process" THEN "stop"
  ELSE IF q.stopReason = Str("tool_use") THEN "tool_calls"
  ELSE IF q.stopReason = Str("max_tokens") THEN "length"
  ELSE "stop"

\* C9: when the backend of a stream ends abnormally after a content chunk reached
\* the connected client, the stream ends with a finish chunk carrying the finish
\* reason of the recorded stop reason and then the [DONE] line; no error frame is
\* written and the status stays 200.
C9_LateFailureFinishes ==
  \A q \in Requests :
    (q.kind = "stream" /\ q.client = "open" /\ Abnormal(q) /\ Of(q.frames, "content") # {}) =>
      LET f == q.frames
      IN /\ q.ended /\ q.status = 200
         /\ f[Len(f)] = DoneFrame
         /\ f[Len(f) - 1] = FinishChunk(ExpectedFinish(q))
         /\ Of(f, "error") = {}

\* reading the upstream body raised after a content chunk and a max_tokens stop
\* reason had been relayed
C9_Witness ==
  \E q \in Requests :
    /\ variant = "direct" /\ q.readFailed /\ q.client = "open"
    /\ q.frames = <<RoleChunk, ContentChunk("a"), FinishChunk("length"), DoneFrame>>

\* a streaming request of the process variant whose subprocess exited with a
\* non-zero code after a content chunk had reached the connected client
FailedAfterContent(q) ==
  /\ variant = "process" /\ q.kind = "stream" /\ q.client = "open"
  /\ q.alive = "dead" /\ q.exitCode # 0 /\ ~q.closePending
  /\ Of(q.frames, "content") # {} /\ ~FinishedByError(q)

\* C10 as the specification words it: such a stream ends with a finish chunk whose
\* finish reason is "error".
C10_ErrorFinishAfterContent ==
  \A q \in Requests :
    FailedAfterContent(q) =>
      \E i \in Of(q.frames, "finish") : q.frames[i].finish_reason = "error"

\* C10: a stream of the process variant whose subprocess exits with a non-zero
\* code after content was emitted ends with a finish chunk whose finish reason is
\* "stop", followed by the [DONE] line.
C10_StopFinishAfterContent ==
  \A q \in Requests :
    FailedAfterContent(q) =>
      /\ q.ended
      /\ Of(q.frames, "finish") # {}
      /\ \A i \in Of(q.frames, "finish") : q.frames[i].finish_reason = "stop"
      /\ q.frames[Len(q.frames)] = DoneFrame

\* the subprocess exited with code 1 after one content chunk
C10_Witness ==
  \E q \in Requests :
    /\ FailedAfterContent(q) /\ q.exitCode = 1
    /\ q.frames = <<RoleChunk, ContentChunk("a"), FinishChunk("stop"), DoneFrame>>

\* the finish reasons of the OpenAI shape
FinishReasons == {"stop", "length", "tool_calls"}

\* the stop-reason mapping as the specification words it
MappedReason(reason) ==
  IF reason = Str("tool_use") THEN "tool_calls"
  ELSE IF reason = Str("max_tokens") THEN "length"
  ELSE "stop"

\* C11: every finish reason a client is sent, in the finish chunk of a stream and
\* in the choice of a non-streaming completion, of either variant, is one of stop,
\* length, tool_calls; that of a stream is the mapping of the stop reason recorded
\* for the request ("stop" when none was recorded).
C11_FinishReasonMapped ==
  \A q \in Requests :
    /\ \A i \in Of(q.frames, "finish") :
         /\ q.frames[i].finish_reason \in FinishReasons
         /\ q.frames[i].finish_reason = MappedReason(q.stopReason)
    /\ q.finish # "" => q.finish \in FinishReasons /\ q.finish = MappedReason(q.stopReason)

\* C12: mapStopReason is total: every value, undefined, null and unknown strings
\* included, is mapped to one of stop, length, tool_calls: tool_use to tool_calls,
\* max_tokens to length, end_turn and stop_sequence to stop, anything else to stop
\* (checked on every stop reason a request records).
C12_MapStopReasonTotal ==
  \A q \in Requests :
    LET r == q.stopReason
    IN /\ mapStopReason(r) \in FinishReasons
       /\ mapStopReason(r) =
            (IF r = Str("tool_use") THEN "tool_calls"
             ELSE IF r = Str("max_tokens") THEN "length"
             ELSE "stop")

\* a completion whose result carried a stop reason the bridge does not know went
\* out with "stop", the default of the mapping
C12_Witness ==
  \E q \in Requests :
    /\ variant = "direct" /\ q.kind = "json" /\ q.status = 200
    /\ q.stopReason = Str("refusal") /\ q.finish = "stop"

\* the tool_use events among the first n events of seen
ToolsIn(seen, n) == Cardinality({p \in 1..n : seen[p].type = "tool_use"})

\* the argument strings of the argument chunks written on index k, in order
ArgsOf(frames, k) ==
  LET sel == SelectSeq(frames, LAMBDA f : f.kind = "args" /\ f.index = k)
  IN [i \in 1..Len(sel) |-> sel[i].arguments]

\* the fragments the backend sent while the k-th tool call was the open one, in order
FragmentsOf(seen, k) ==
  LET F[n \in 0..Len(seen)] ==
        IF n = 0 THEN <<>>
        ELSE IF seen[n].type = "input_json_delta" /\ ToolsIn(seen, n) - 1 = k
        THEN Append(F[n - 1], seen[n].partial_json)
        ELSE F[n - 1]
  IN F[Len(seen)]

\* C13: in a stream of the direct variant whose client is connected, the argument
\* fragments of every tool call are relayed one chunk per fragment, in arrival
\* order, on the index of the tool call that is open when they arrive; so the
\* argument strings of the chunks of one index, concatenated in emission order,
\* are the concatenation of the upstream fragments of that tool call.
C13_FragmentsInOrder ==
  \A q \in Requests :
    (variant = "direct" /\ q.kind = "stream" /\ q.client = "open") =>
      \A k \in 0..Len(q.seen) :
        /\ ArgsOf(q.frames, k) = FragmentsOf(q.seen, k)
        /\ Join(ArgsOf(q.frames, k), "") = Join(FragmentsOf(q.seen, k), "")

\* the argument string "{}" of a tool call arrived in two fragments, which went out
\* in that order on index 0
C13_Witness ==
  \E q \in Requests :
    /\ q.client = "open" /\ Len(q.frames) = 4
    /\ q.frames[2].kind = "tool" /\ q.frames[2].index = 0
    /\ q.frames[3] = ArgsChunk(0, "{") /\ q.frames[4] = ArgsChunk(0, "}")
    /\ Join(ArgsOf(q.frames, 0), "") = "{}"

\* C14: in a stream of the direct variant the k-th tool_use start (k from 0) writes
\* one chunk that introduces a tool call at index k with the id and name of the
\* block (a generated, non-empty id when the block has none) and an empty argument
\* string, and records {id, name} under k; indices grow by one per event and are
\* never used twice.
C14_ToolIndexSequential ==
  \A q \in Requests :
    (variant = "direct" /\ q.kind = "stream") =>
      LET tools == SelectSeq(q.seen, LAMBDA ev : ev.type = "tool_use")
          chunks == SelectSeq(q.frames, LAMBDA f : f.kind = "tool")
      IN /\ q.toolCallIndex = Len(tools) - 1
         /\ q.activeToolCalls = [k \in 1..Len(tools) |-> [id |-> tools[k].id, name |-> tools[k].name]]
         /\ q.client = "open" =>
              /\ Len(chunks) = Len(tools)
              /\ \A k \in 1..Len(tools) :
                   /\ chunks[k].index = k - 1
                   /\ chunks[k].name = tools[k].name
                   /\ chunks[k].arguments = ""
                   /\ chunks[k].id.t = "string" /\ chunks[k].id.v # ""
                   /\ tools[k].id.t = "string" => chunks[k].id = tools[k].id

\* two tool calls were opened, the second by a block without an id: they went out
\* on the indices 0 and 1
C14_Witness ==
  \E q \in Requests :
    /\ q.client = "open" /\ Len(q.frames) = 3
    /\ q.frames[2] = ToolChunk(0, Str("toolu_1"), "get_weather")
    /\ q.frames[3].kind = "tool" /\ q.frames[3].index = 1 /\ q.frames[3].id # Str("toolu_1")
    /\ Len(q.activeToolCalls) = 2

\* the texts of the content chunks among frames, in order
ContentOf(frames) ==
  LET sel == SelectSeq(frames, LAMBDA f : f.kind = "content")
  IN [i \in 1..Len(sel) |-> sel[i].content]

\* the non-empty text increments among the events of seen, in order
TextsOf(seen) ==
  LET sel == SelectSeq(seen, LAMBDA ev : ev.type = "text_delta" /\ ev.text # "")
  IN [i \in 1..Len(sel) |-> sel[i].text]

\* the increment whose line the subprocess has not completed yet
Pending(q) ==
  variant = "process" /\ q.buffer # "" /\ q.buffer \notin NonEvents /\ q.pc # "done"

BlocksOf(native) ==
  LET B[n \in 0..Len(native)] ==
        IF n = 0 THEN <<>>
        ELSE B[n - 1] \o (IF native[n].content.t = "array"
                          THEN [i \in 1..Len(native[n].content.v) |->
                                  [role |-> native[n].role, block |-> native[n].content.v[i]]]
                          ELSE <<>>)
  IN B[Len(native)]

\* C16: when the tool calls of a completion are sent back in the next request, as
\* the tool_calls of the assistant message and as one tool message per call, the
\* i-th call's id (a non-empty string) is the id of the i-th tool_use block,
\* which lies in an assistant entry, and the tool_use_id of the i-th tool_result
\* block, which lies in a user entry.
C16_ToolCallIdRoundTrip ==
  \A q \in Requests :
    q.answers # <<>> =>
      LET all == BlocksOf(q.anthropicMessages)
          uses == SelectSeq(all, LAMBDA b : b.block.type = "tool_use")
          results == SelectSeq(all, LAMBDA b : b.block.type = "tool_result")
      IN /\ Len(uses) = Len(q.answers) /\ Len(results) = Len(q.answers)
         /\ \A i \in 1..Len(q.answers) :
              /\ q.answers[i].id.t = "string" /\ q.answers[i].id.v # ""
              /\ uses[i].role = "assistant" /\ uses[i].block.id = q.answers[i].id
              /\ results[i].role = "user" /\ results[i].block.tool_use_id = q.answers[i].id
              /\ results[i].block.tool_use_id = uses[i].block.id

\* a completion carried two tool calls, the second with an id the bridge made;
\* the request that answers them was converted
C16_Witness ==
  \E q \in Requests :
    /\ Len(q.answers) = 2 /\ q.answers[1].id = Str("toolu_1") /\ q.answers[2].id = genId("call")
    /\ q.pc = "calling" /\ Len(q.anthropicMessages) = 3
    /\ q.anthropicMessages[3].content.v[2] = ToolResultBlock(genId("call"), Str("res"))

\* C17: the native message list convertMessages returns has no two adjacent
\* entries of the same role, whatever the roles of the input messages are.
C17_RolesAlternate ==
  \A q \in Requests :
    \A i \in 1..(Len(q.anthropicMessages) - 1) :
      q.anthropicMessages[i].role # q.anthropicMessages[i + 1].role

\* an assistant message, an assistant message with a tool call and a tool message
\* became the placeholder, one assistant entry of two blocks and one user entry
C17_Witness ==
  \E q \in Requests :
    /\ Len(q.messages) = 3
    /\ q.messages[1] = Msg(Str("assistant"), Str("ok"))
    /\ q.messages[2].role = Str("assistant") /\ Get(q.messages[2], "tool_calls") # Undef
    /\ q.messages[3].role = Str("tool")
    /\ [i \in 1..Len(q.anthropicMessages) |-> q.anthropicMessages[i].role]
         = <<"user", "assistant", "user">>
    /\ Len(q.anthropicMessages[2].content.v) >= 2

\* the placeholder entry
Placeholder == [role |-> "user", content |-> Str("(continue)")]

\* C18: the first entry of the native message list convertMessages returns has
\* the user role; it is the placeholder, followed by an assistant entry, exactly
\* when the first message that is not a system message is an assistant message.
C18_FirstIsUser ==
  \A q \in Requests :
    LET native == q.anthropicMessages
        turns == SelectSeq(q.messages, LAMBDA m : m.role # Str("system"))
    IN /\ Len(native) > 0 <=> Len(turns) > 0
       /\ Len(native) > 0 =>
            /\ native[1].role = "user"
            /\ turns[1].role = Str("assistant")
                 <=> (native[1] = Placeholder /\ Len(native) >= 2 /\ native[2].role = "assistant")

\* a system message and then an assistant message were converted: the list is
\* the placeholder and the assistant entry
C18_Witness ==
  \E q \in Requests :
    /\ Len(q.messages) = 2
    /\ q.messages[1].role = Str("system") /\ q.messages[2] = Msg(Str("assistant"), Str("ok"))
    /\ q.anthropicMessages = <<Placeholder, [role |-> "assistant", content |-> Str("ok")]>>

\* C19: once the connection of a request of the process variant that holds a
\* slot has terminated, on the streaming and on the non-streaming path alike, its
\* subprocess is not running unsignalled and its slot has been released.
C19_DisconnectStopsProcess ==
  \A q \in Requests :
    (variant = "process" /\ q.client = "closed" /\ q.acquired) =>
      q.alive # "running" /\ q.releases >= 1

\* the same on the streaming path alone, where the handler listens for the
\* connection's 'close'
StreamDisconnectStopsProcess ==
  \A q \in Requests :
    (variant = "process" /\ q.kind = "stream" /\ q.client = "closed" /\ q.acquired) =>
      q.alive # "running" /\ q.releases >= 1

\* C20: once the connection of a request of the direct variant has terminated
\* while its outbound call is in progress, the call is aborted: no later step
\* takes the call's result or reads an upstream event for that request.
C20_DisconnectAbortsCall ==
  [][\A q \in Requests :
       (variant = "direct" /\ q.client = "closed" /\ q.pc \in {"calling", "reading"}) =>
         BagIn(q, req') /\ CopiesIn(q, req') >= CopiesIn(q, req)]_vars

\* C21: a non-streaming request of the process variant whose subprocess was
\* still running when the timeout elapsed, and which has been answered, has been
\* answered with status 504 and its subprocess has been signalled, on both routes
\* and whichever of the spawn timeout, the handler's timer and 'close' came first.
C21_TimeoutAnswers504 ==
  \A q \in Requests :
    (variant = "process" /\ q.kind = "json" /\ q.timedOut /\ q.status # 0) =>
      q.status = 504 /\ q.alive # "running"

\* the same for the chat route when the handler's timer is the first to act
ChatTimerAnswers504 ==
  \A q \in Requests :
    (variant = "process" /\ q.kind = "json" /\ q.route = "chat" /\ q.killed /\ q.status # 0) =>
      q.status = 504 /\ q.alive # "running"

\* C22: a non-streaming request whose backend call failed (a non-2xx response of
\* the remote API; a non-zero exit of the subprocess, or a subprocess that could
\* not be spawned) has been answered with status 502, and its backend was invoked
\* once.
C22_BackendFailure502 ==
  \A q \in Requests :
    (q.kind = "json" /\ q.err \in {"non2xx", "exit", "spawn"}) =>
      q.status = 502 /\ q.ended /\ q.invoked = 1

\* the same for the direct variant alone
DirectFailure502 ==
  \A q \in Requests :
    (variant = "direct" /\ q.err \in {"non2xx", "network_error"}) =>
      q.status = 502 /\ q.ended /\ q.invoked = 1 /\ q.frames = <<>>

\* a failed call of the subprocess is answered once, with status 500, and the
\* subprocess is not spawned again
ProcessFailure500 ==
  \A q \in Requests :
    (variant = "process" /\ q.kind = "json" /\ q.err \in {"exit", "spawn", "cli_error"}) =>
      q.status = 500 /\ q.ended /\ q.invoked = 1

\* C23: a request of the direct variant whose outbound call got a non-2xx
\* response has been answered with status 502 and a JSON body, whose message
\* carries the first 500 characters of the response's body; no frame of an event
\* stream was written for it, for a streaming request as for any other.
C23_Non2xxBeforeStream ==
  \A q \in Requests :
    (variant = "direct" /\ q.err = "non2xx") =>
      /\ q.status = 502 /\ q.ended /\ q.frames = <<>>
      /\ q.errCarried <= 500
      /\ q.errCarried = (IF q.errBody <= 500 THEN q.errBody ELSE 500)

\* a streaming request whose call got a non-2xx response with a body of 2000
\* characters was answered 502, the message carrying 500 of them
C23_Witness ==
  \E q \in Requests :
    /\ variant = "direct" /\ q.kind = "stream" /\ q.client = "open"
    /\ q.err = "non2xx" /\ q.errBody = 2000 /\ q.errCarried = 500
    /\ q.status = 502 /\ q.frames = <<>>

\* C24: no chat request whose messages are all system messages is converted or
\* passed to the backend: it is answered with status 400.
C24_AllSystemRejected ==
  \A q \in Requests :
    (q.messages # <<>> /\ \A i \in 1..Len(q.messages) : q.messages[i].role = Str("system")) =>
      q.status = 400 /\ q.invoked = 0

\* validateChatRequest of the process variant reports every body of ChatBodies
\* whose messages are all system messages
ProcessRejectsAllSystem ==
  \A b \in ChatBodies :
    (/\ b.messages.t = "array" /\ b.messages.v # <<>>
     /\ \A i \in 1..Len(b.messages.v) : b.messages.v[i] = Msg(Str("system"), Str("sys")))
      => validateChatRequest(b) # <<>> /\ chatClass(b) = "invalid"

\* the texts of the text blocks among blocks, in order
BlockTexts(blocks) ==
  LET sel == SelectSeq(blocks, LAMBDA b : b.type = "text")
  IN [i \in 1..Len(sel) |-> sel[i].text]

\* the tool_calls of a completion's message are one entry per tool_use block of
\* the result, in block order, with the block's name and its input serialized;
\* the field is absent when the result has no tool_use block
ToolCallsFromBlocks(q) ==
  LET tools == SelectSeq(q.resultContent, LAMBDA b : b.type = "tool_use")
      calls == Get(q.message, "tool_calls")
  IN IF Len(tools) = 0 THEN calls = Undef
     ELSE /\ calls.t = "array" /\ Len(calls.v) = Len(tools)
          /\ \A i \in 1..Len(tools) :
               /\ calls.v[i].type = Str("function")
               /\ calls.v[i].function.name = Str(tools[i].name)
               /\ calls.v[i].function.arguments
                    = (IF tools[i].input = CityObject THEN Str("{\"city\":\"Prague\"}")
                       ELSE Str("{}"))

\* C25: the message of a non-streaming completion of the direct variant has as
\* content the concatenation of the result's text blocks, and null exactly when
\* the result has no text block and at least one tool call; its tool_calls are
\* one entry per tool_use block, in order, and absent when there is none.
C25_MessageFromBlocks ==
  \A q \in Requests :
    (variant = "direct" /\ q.kind = "json" /\ q.status = 200) =>
      LET texts == BlockTexts(q.resultContent)
          tools == SelectSeq(q.resultContent, LAMBDA b : b.type = "tool_use")
      IN /\ q.message.content = Null <=> (Len(texts) = 0 /\ Len(tools) > 0)
         /\ q.message.content # Null => q.message.content = Str(Join(texts, ""))
         /\ ToolCallsFromBlocks(q)

\* what the code does: the content is null exactly when the concatenated text is
\* empty, whether or not the result has a tool call
ContentNullWhenNoText ==
  \A q \in Requests :
    (variant = "direct" /\ q.kind = "json" /\ q.status = 200) =>
      LET texts == BlockTexts(q.resultContent)
      IN /\ q.message.content = Null <=> Join(texts, "") = ""
         /\ q.message.content # Null => q.message.content = Str(Join(texts, ""))
         /\ ToolCallsFromBlocks(q)

\* C26: in the body the direct variant sends to the remote API, the tool choice
\* is {type: any} for required, {type: tool, name} for a choice that names a
\* function, {type: none} for none and {type: auto} for auto; the field is absent
\* when the request has no tool choice.
C26_ToolChoiceMapped ==
  \A q \in Requests :
    (variant = "direct" /\ q.invoked >= 1) =>
      LET c == q.tool_choice
          a == q.anthropicToolChoice
      IN /\ c = Str("required") => a = [type |-> "any"]
         /\ c = Str("none") => a = [type |-> "none"]
         /\ c = Str("auto") => a = [type |-> "auto"]
         /\ c = NamedChoice("tool_b") => a = [type |-> "tool", name |-> Str("tool_b")]
         /\ c = Undef => a = Undef

\* a request that names tool_b has been passed on and answered
C26_Witness ==
  \E q \in Requests :
    /\ variant = "direct" /\ q.invoked = 1 /\ q.status = 200
    /\ q.tool_choice = NamedChoice("tool_b")
    /\ q.anthropicToolChoice = [type |-> "tool", name |-> Str("tool_b")]

\* the place of the first stage s among the stages of q, 0 when it has none
Pos(q, s) ==
  IF \E i \in 1..Len(q.stages) : q.stages[i] = s
  THEN CHOOSE i \in 1..Len(q.stages) : q.stages[i] = s /\ \A j \in 1..(i - 1) : q.stages[j] # s
  ELSE 0

\* stage a of q has taken place, and before every stage b of q
Before(q, a, b) == Pos(q, a) > 0 /\ Pos(q, a) < Pos(q, b)

\* C27: in the process variant the stages of an admitted request occur in this
\* order: the conversion of a chat request's messages is complete before the slot
\* is acquired, the slot is acquired before the subprocess is spawned, and the
\* slot of a request whose client is connected is released only after the
\* response is complete (its body sent or its stream ended).
C27_StagesInOrder ==
  \A q \in Requests :
    variant = "process" =>
      /\ (q.route = "chat" /\ Pos(q, "acquire") > 0) => Before(q, "convert", "acquire")
      /\ Pos(q, "invoke") > 0 => Before(q, "acquire", "invoke")
      /\ (Pos(q, "release") > 0 /\ q.client = "open") => Before(q, "respond", "release")

\* the part of the order the code keeps: the slot is acquired before the
\* subprocess is spawned, conversion comes between the two, and a stream that a
\* callback of its subprocess finishes while its client is connected is ended
\* before its slot is released
AcquireConvertInvoke ==
  \A q \in Requests :
    variant = "process" =>
      /\ Pos(q, "invoke") > 0 => Before(q, "acquire", "invoke")
      /\ (q.route = "chat" /\ Pos(q, "invoke") > 0) =>
           Before(q, "acquire", "convert") /\ Before(q, "convert", "invoke")
      /\ (q.kind = "stream" /\ q.finished /\ Pos(q, "release") > 0 /\ q.client = "open") =>
           Before(q, "respond", "release")

\* the chunks due for the events with a payload the remote API has sent: a
\* content chunk per non-empty text, a tool chunk per tool_use block on the next
\* index, an argument chunk per fragment on the index of the open tool call
ExpectedChunks(seen) ==
  LET E[n \in 0..Len(seen)] ==
        IF n = 0 THEN <<>>
        ELSE LET ev == seen[n]
                 k == ToolsIn(seen, n) - 1
             IN E[n - 1] \o
                (IF ev.type = "text_delta"
                 THEN (IF ev.text = "" THEN <<>> ELSE <<ContentChunk(ev.text)>>)
                 ELSE IF ev.type = "tool_use"
                 THEN <<ToolChunk(k, IF ev.id.t = "string" /\ ev.id.v # "" THEN ev.id
                                     ELSE Str("call-generated"), ev.name)>>
                 ELSE IF ev.type = "input_json_delta"
                 THEN <<ArgsChunk(k, ev.partial_json)>>
                 ELSE <<>>)
  IN E[Len(seen)]

\* the frames written before the finish chunk
BeforeFinish(frames) == SelectSeq(frames, LAMBDA f : f.kind \notin {"finish", "done"})

\* the stop reason in force after the events that carried reasons
LastReason(reasons) == IF reasons = <<>> THEN Str("stop") ELSE reasons[Len(reasons)]

\* C28: an event that carries a stop reason changes nothing but the recorded stop
\* reason.  In a stream of the direct variant whose client is connected, the
\* frames written before the finish chunk are the role chunk and the chunks of
\* the other events, as if no such event had occurred, and the finish chunk
\* carries the mapping of the last stop reason observed.
C28_StopReasonOnly ==
  /\ [](\A q \in Requests :
          (variant = "direct" /\ q.kind = "stream" /\ q.client = "open" /\ q.status = 200) =>
            /\ q.stopReason = LastReason(q.reasons)
            /\ BeforeFinish(q.frames) = <<RoleChunk>> \o ExpectedChunks(q.seen)
            /\ \A i \in Of(q.frames, "finish") :
                 q.frames[i].finish_reason = MappedReason(LastReason(q.reasons)))
  /\ [][\A q \in Requests, r \in BagToSet(req') :
          (q.pc = "reading" /\ r.reasons # q.reasons) =>
            r = [q EXCEPT !.stopReason = LastReason(r.reasons), !.reasons = r.reasons]]_vars

\* two events carried a stop reason, tool_use and then max_tokens, around a text;
\* the stream ended with the text's chunk and the finish reason "length"
C28_Witness ==
  \E q \in Requests :
    /\ variant = "direct" /\ q.client = "open"
    /\ q.reasons = <<Str("tool_use"), Str("max_tokens")>>
    /\ q.frames = <<RoleChunk, ContentChunk("a"), FinishChunk("length"), DoneFrame>>

\* the lines of seen that are events, in order
EventsOf(seen) == SelectSeq(seen, LAMBDA ev : ev.type \notin {"other", "malformed"})

\* C29: lines that do not parse and lines that are no event are skipped without
\* effect.  In a stream whose client is connected the frames before the finish
\* chunk are those of the line sequence with these lines removed, so is the
\* finish reason, and a stream that has got such a line and is over ends as one
\* without such a line: with the finish chunk (the error frame where the 'error'
\* callback finished it) and the [DONE] line.
C29_SkippedLinesNoEffect ==
  \A q \in Requests :
    (q.kind = "stream" /\ q.client = "open" /\ q.status = 200) =>
      LET events == EventsOf(q.seen)
          n == Len(q.frames)
      IN /\ variant = "direct" =>
              /\ BeforeFinish(q.frames) = <<RoleChunk>> \o ExpectedChunks(events)
              /\ \A i \in Of(q.frames, "finish") :
                   q.frames[i].finish_reason = MappedReason(LastReason(q.reasons))
         /\ variant = "process" =>
              /\ LET got == TextsOf(events)
                     due == IF Pending(q) THEN SubSeq(got, 1, Len(got) - 1) ELSE got
                 IN /\ ContentOf(q.frames) = due
                    /\ q.late = 0 => (q.sentContent <=> due # <<>>)
              /\ \A i \in Of(q.frames, "finish") :
                   q.frames[i].finish_reason
                     = (IF q.exitCode = 0 \/ TextsOf(events) # <<>> THEN "stop" ELSE "error")
         /\ (q.pc = "done" /\ events # q.seen) =>
              /\ n >= 2 /\ q.frames[n] = DoneFrame
              /\ q.frames[n - 1].kind \in {"finish", "error"}
              /\ q.frames[n - 1].kind = "error" => q.timedOut

\* a line that does not parse arrived between two texts; the stream carried the
\* two texts and ended with the finish chunk and the [DONE] line
C29_Witness ==
  \E q \in Requests :
    /\ q.client = "open" /\ q.pc = "done"
    /\ q.seen = <<[type |-> "text_delta", text |-> "a"], [type |-> "malformed"],
                  [type |-> "text_delta", text |-> "b"]>>
    /\ q.frames = <<RoleChunk, ContentChunk("a"), ContentChunk("b"), FinishChunk("stop"), DoneFrame>>

\* the output is a JSON object
Structured(out) == out.parses /\ out.value.t = "object"

\* C30: when the 'close' callback decides a non-streaming request of the process
\* variant, a non-zero exit fails it with at most the first 500 characters of
\* stderr; a zero exit with a JSON object whose is_error is set fails it; a zero
\* exit with a JSON object without the marker answers 200 with its result (the
\* empty string when it has none); a zero exit with output that does not parse
\* answers 200 with the trimmed output as text.
C30_CloseOutcome ==
  \A q \in Requests :
    (variant = "process" /\ q.kind = "json" /\ q.out # Undef /\ q.err \notin {"spawn", "timeout"}) =>
      /\ q.exitCode # 0 =>
           /\ q.status = 500 /\ q.err = "exit" /\ q.text = Undef
           /\ q.errCarried = (IF q.errBody <= 500 THEN q.errBody ELSE 500)
      /\ (q.exitCode = 0 /\ Structured(q.out) /\ Get(q.out.value, "is_error") = Bool(TRUE)) =>
           q.status = 500 /\ q.err = "cli_error" /\ q.text = Undef
      /\ (q.exitCode = 0 /\ Structured(q.out) /\ Get(q.out.value, "is_error") # Bool(TRUE)) =>
           /\ q.status = 200 /\ q.err = ""
           /\ q.text = (IF Get(q.out.value, "result") = Undef THEN Str("")
                        ELSE q.out.value.result)
      /\ (q.exitCode = 0 /\ ~q.out.parses) =>
           q.status = 200 /\ q.err = "" /\ q.text = Str(q.out.trimmed)

\* the CLI exited with code 0 after writing plain text: the request was answered
\* 200 with that text
C30_Witness ==
  \E q \in Requests :
    /\ variant = "process" /\ q.kind = "json" /\ q.exitCode = 0
    /\ q.out # Undef /\ ~q.out.parses /\ q.out.trimmed = "plain"
    /\ q.status = 200 /\ q.text = Str("plain")

\* a content as a list of blocks: a string is one text block
AsBlocks(content) == IF content.t = "string" THEN <<TextBlock(content.v)>> ELSE content.v

\* the content blocks of a native message list, read front to back
Flat(native) ==
  LET F[n \in 0..Len(native)] ==
        IF n = 0 THEN <<>> ELSE F[n - 1] \o AsBlocks(native[n].content)
  IN F[Len(native)]

\* the content blocks one input message is converted to
ConvertedBlocks(msg) ==
  IF msg.role = Str("assistant") /\ Get(msg, "tool_calls").t = "array"
     /\ Len(Get(msg, "tool_calls").v) > 0
  THEN assistantBlocks(msg)
  ELSE IF msg.role = Str("tool") THEN <<toolResultBlock(msg)>>
  ELSE AsBlocks(convertContent(msg.content))

\* the content blocks of the input messages that are not system messages, in
\* input order
InputBlocks(messages) ==
  LET I[n \in 0..Len(messages)] ==
        IF n = 0 THEN <<>>
        ELSE I[n - 1] \o (IF messages[n].role = Str("system") THEN <<>>
                          ELSE ConvertedBlocks(messages[n]))
  IN I[Len(messages)]

\* the native list without the placeholder the conversion put in front
WithoutPlaceholder(native, messages) ==
  LET turns == SelectSeq(messages, LAMBDA m : m.role # Str("system"))
  IN IF Len(native) > 0 /\ native[1] = Placeholder
        /\ Len(turns) > 0 /\ turns[1].role = Str("assistant")
     THEN Tail(native) ELSE native

\* C31: the content blocks of the native message list, read front to back with
\* a string content counted as one text block and the placeholder left out, are
\* the content blocks converted from the input messages that are not system
\* messages, in input order: merging loses and reorders nothing.
C31_MergeKeepsBlocks ==
  \A q \in Requests :
    q.messages # <<>> =>
      Flat(WithoutPlaceholder(q.anthropicMessages, q.messages)) = InputBlocks(q.messages)

\* three messages of the user side (a string, content in parts, a tool result)
\* were merged into one entry of three blocks
C31_Witness ==
  \E q \in Requests :
    /\ Len(q.messages) = 3
    /\ q.messages[1] = Msg(Str("user"), Str("hi"))
    /\ q.messages[2].content.t = "array"
    /\ q.messages[3] = ToolMsg(Str("call_1"), Str("res"))
    /\ Len(q.anthropicMessages) = 1
    /\ q.anthropicMessages[1].content
         = Arr(<<TextBlock("hi"), TextBlock("p"), ToolResultBlock(Str("call_1"), Str("res"))>>)

\* an input message is an assistant message that carries tool calls
HasToolCalls(msg) ==
  /\ msg.role = Str("assistant")
  /\ Get(msg, "tool_calls").t = "array" /\ Len(Get(msg, "tool_calls").v) > 0

\* the text that accompanies the tool calls of an assistant message
TextWith(msg) == IF msg.content.t = "string" THEN msg.content.v ELSE ""

\* blocks are what the tool calls of msg are converted to, when every argument
\* value has to be an object (strict) or when it only has to be what the
\* argument JSON parses to
BlocksForCalls(blocks, msg, strict) ==
  LET calls == msg.tool_calls.v
      off == IF TextWith(msg) = "" THEN 0 ELSE 1
  IN /\ Len(blocks) = off + Len(calls)
     /\ off = 1 => blocks[1] = TextBlock(TextWith(msg))
     /\ \A k \in 1..Len(calls) :
          LET b == blocks[off + k]
              tc == calls[k]
              parsed == JSONparse(tc.function.arguments.v)
          IN /\ b.type = "tool_use"
             /\ b.id.t = "string" /\ b.id.v # ""
             /\ ~Falsy(tc.id) => b.id = tc.id
             /\ b.name = tc.function.name
             /\ strict => b.input.t = "object"
             /\ IF parsed.threw THEN b.input = EmptyObject ELSE b.input = parsed.v

\* the blocks of msg lie, in one piece, in an assistant entry of the native list
InAssistantEntry(native, msg, strict) ==
  \E n \in 1..Len(native) :
    /\ native[n].role = "assistant"
    /\ LET all == AsBlocks(native[n].content)
       IN \E i \in 1..Len(all), j \in 1..Len(all) :
            i <= j /\ BlocksForCalls(SubSeq(all, i, j), msg, strict)

\* C32: every assistant message with tool calls of a converted request became,
\* inside one assistant entry, its text block (if it has text) and then one
\* tool_use block per call in call order, with the call's id (a generated one if
\* it has none), its name and an argument value that is an object: what the
\* argument JSON parses to, or the empty object when it does not parse.
C32_ToolCallsToBlocks ==
  \A q \in Requests :
    \A m \in 1..Len(q.messages) :
      HasToolCalls(q.messages[m]) => InAssistantEntry(q.anthropicMessages, q.messages[m], TRUE)

\* what holds of the code: the argument value is what the argument JSON parses
\* to, whether or not that is an object, and the empty object when it does not
\* parse
ToolCallsToParsedBlocks ==
  \A q \in Requests :
    \A m \in 1..Len(q.messages) :
      HasToolCalls(q.messages[m]) => InAssistantEntry(q.anthropicMessages, q.messages[m], FALSE)

\* the texts of the system messages of an input, in input order
SystemTexts(messages) ==
  LET sys == SelectSeq(messages, LAMBDA m : m.role = Str("system"))
  IN [i \in 1..Len(sys) |-> sys[i].content.v]

\* no text of a system message lies in the native message list
NoSystemInList(q) ==
  \A i \in 1..Len(Flat(q.anthropicMessages)), j \in 1..Len(SystemTexts(q.messages)) :
    LET b == Flat(q.anthropicMessages)[i]
    IN b.type = "text" /\ SystemTexts(q.messages)[j] # "" => b.text # SystemTexts(q.messages)[j]

\* the system instruction of a request is exactly one text block of this text
SystemIs(q, text) ==
  q.system.t = "array" /\ Len(q.system.v) = 1 /\ q.system.v[1].text = text

\* C33 as the specification words it, for system messages that all have a text:
\* no system message lies in the native message list, and the system
\* instruction is the texts of the system messages in input order with one
\* newline between them, after the identity text when the token is an OAuth
\* token.
C33_SystemNewlineJoined ==
  \A q \in Requests :
    (/\ q.messages # <<>> /\ SystemTexts(q.messages) # <<>>
     /\ \A i \in 1..Len(SystemTexts(q.messages)) : SystemTexts(q.messages)[i] # "") =>
      /\ NoSystemInList(q)
      /\ LET joined == Join(SystemTexts(q.messages), "\n")
         IN IF isOAuthToken(authToken)
            THEN \E sep \in {"", "\n", "\n\n"} : SystemIs(q, Identity \o sep \o joined)
            ELSE SystemIs(q, joined)

\* C33: no system message lies in the native message list; the system
\* instruction is the non-empty texts of the system messages in input order with
\* a blank line between them, after the identity text and a blank line when the
\* token is an OAuth token; without such a text and without an OAuth token no
\* system instruction is sent.
C33_SystemBlankLineJoined ==
  \A q \in Requests :
    q.messages # <<>> =>
      /\ NoSystemInList(q)
      /\ LET texts == SelectSeq(SystemTexts(q.messages), LAMBDA s : s # "")
             joined == Join(texts, "\n\n")
         IN IF isOAuthToken(authToken)
            THEN SystemIs(q, IF texts = <<>> THEN Identity ELSE Identity \o "\n\n" \o joined)
            ELSE IF texts = <<>> THEN q.system = Undef
            ELSE SystemIs(q, joined)

\* under an OAuth token, two system messages around a user message were
\* converted: the list holds the user message only and the system instruction is
\* the identity text and the two texts, in order
C33_Witness ==
  \E q \in Requests :
    /\ isOAuthToken(authToken)
    /\ q.messages = <<Msg(Str("system"), Str("sys")), Msg(Str("user"), Str("hi")),
                      Msg(Str("system"), Str("be brief"))>>
    /\ q.anthropicMessages = <<[role |-> "user", content |-> Str("hi")]>>
    /\ SystemIs(q, Identity \o "\n\nsys\n\nbe brief")

\* C34: the state of a stream belongs to its request.  While two requests are
\* served at once, with the events of their backends interleaved, every stream
\* carries the frames, tool-call indices and finish reason that its own events
\* give when it is served alone, and a step changes the record of one request
\* only.
C34_StreamStatePrivate ==
  /\ [](\A q \in Requests :
          (q.kind = "stream" /\ q.status = 200) =>
            /\ variant = "direct" =>
                 /\ BeforeFinish(q.frames) = <<RoleChunk>> \o ExpectedChunks(q.seen)
                 /\ q.toolCallIndex = ToolsIn(q.seen, Len(q.seen)) - 1
                 /\ \A i \in Of(q.frames, "finish") :
                      q.frames[i].finish_reason = MappedReason(LastReason(q.reasons))
            /\ variant = "process" =>
                 LET got == TextsOf(q.seen)
                 IN /\ ContentOf(q.frames)
                         = (IF Pending(q) THEN SubSeq(got, 1, Len(got) - 1) ELSE got)
                    /\ \A i \in Of(q.frames, "finish") :
                         q.frames[i].finish_reason
                           = (IF q.exitCode = 0 \/ got # <<>> THEN "stop" ELSE "error"))
  /\ [][\/ \E r \in BagToSet(req') : req' = req (+) SetToBag({r})
        \/ \E q \in Requests, r \in BagToSet(req') :
             req' = (req (-) SetToBag({q})) (+) SetToBag({r})]_vars

\* two streams of the direct variant are open at once; one has got a tool_use
\* block and an argument fragment, the other a text and a tool_use block, and
\* each carries its tool call on index 0
C34_Witness ==
  \E q1, q2 \in Requests :
    /\ variant = "direct" /\ q1.pc = "reading" /\ q2.pc = "reading"
    /\ q1.frames = <<RoleChunk, ToolChunk(0, Str("toolu_1"), "get_weather"), ArgsChunk(0, "{")>>
    /\ q2.frames = <<RoleChunk, ContentChunk("a"), ToolChunk(0, Str("toolu_1"), "get_weather")>>

\* the subprocesses that were spawned and have not exited
LiveProcesses ==
  Sum([q \in Requests |-> IF q.alive \in {"running", "signalled"} THEN 1 ELSE 0], Requests)

\* the subprocesses that have not exited and were sent no signal
UnsignalledProcesses ==
  Sum([q \in Requests |-> IF q.alive = "running" THEN 1 ELSE 0], Requests)

\* C35: the number of subprocesses that were spawned and have not exited does
\* not exceed MAX_CONCURRENT, a process that was sent a signal and is still
\* running counted.
C35_LiveProcessesBounded == LiveProcesses <= MAX_CONCURRENT

\* what holds of the code: the bound holds of the subprocesses that were sent no
\* signal
UnsignalledProcessesBounded == UnsignalledProcesses <= MAX_CONCURRENT

\* C36: nothing is written to a stream after its [DONE] line.  The [DONE] line
\* is the last frame of every stream that has one, and once it is written no
\* callback of the request (a later stdout data event, the flush of the buffer
\* by a later 'close' event) adds a frame.
C36_NothingAfterDone ==
  /\ [](\A q \in Requests :
          q.kind = "stream" => \A i \in Of(q.frames, "done") : i = Len(q.frames))
  /\ [][\A q \in Requests, r \in BagToSet(req') :
          (q.kind = "stream" /\ Of(q.frames, "done") # {}) => r.frames = q.frames]_vars

\* the 'error' handler finished a stream whose subprocess kept running; the text
\* the subprocess wrote afterwards was handled and nothing followed the [DONE] line
C36_Witness ==
  \E q \in Requests :
    /\ variant = "process" /\ q.kind = "stream" /\ q.client = "open" /\ q.buffer = ""
    /\ q.frames = <<RoleChunk, ErrorFrame, DoneFrame>>
    /\ q.late = 1 /\ q.sentContent

\* the responses the handler of q has sent
Responses(q) == Len(SelectSeq(q.stages, LAMBDA s : s = "respond"))

\* C37: a non-streaming request of the process variant is answered once.  In
\* every order of the timer, the 'close' event and the 'error' event its handler
\* sends at most one response and releases at most once, exactly one of each
\* once the execution has settled, and after the response nothing of it changes:
\* the first outcome stands.
C37_OneResponse ==
  /\ [](\A q \in Requests :
          (variant = "process" /\ q.kind = "json") =>
            /\ Responses(q) <= 1 /\ q.releases <= 1
            /\ q.settled => (Responses(q) = 1 /\ q.releases = 1 /\ q.ended))
  /\ [][\A q \in Requests, r \in BagToSet(req') :
          (variant = "process" /\ q.kind = "json" /\ q.settled) =>
            /\ r.status = q.status /\ r.err = q.err /\ r.text = q.text
            /\ r.stages = q.stages /\ r.releases = q.releases]_vars

\* the timer answered 504; the subprocess exited afterwards and its 'close' event
\* was handled without another response or release
C37_Witness ==
  \E q \in Requests :
    /\ variant = "process" /\ q.kind = "json" /\ q.route = "chat"
    /\ q.status = 504 /\ q.killed /\ q.alive = "dead" /\ ~q.closePending
    /\ Responses(q) = 1 /\ q.releases = 1

\* the texts of the lines of a byte sequence that is read in one piece: the
\* lines that are complete and, where the rest is flushed, the rest
WholeTexts(got, flushed) ==
  LET s == split(toString(got))
      texts == [i \in 1..Len(s.lines) |-> Join(s.lines[i], "")]
  IN SelectSeq(texts, LAMBDA t : t # "")
     \o (IF flushed /\ s.rest # <<>> THEN <<Join(s.rest, "")>> ELSE <<>>)

\* the content chunks of the stream of q are those of its bytes read in one
\* piece
SplitIndependent(q) ==
  ContentOf(q.frames)
    = WholeTexts(q.got, variant = "process" /\ q.alive = "dead" /\ ~q.closePending)

\* C38: the frames of a stream do not depend on how the bytes of the backend are
\* split into reads: in both variants the content chunks of a stream whose
\* client is connected are those of the same bytes read in one piece.
C38_SplitIndependent ==
  \A q \in Requests :
    (q.kind = "stream" /\ q.client = "open" /\ q.status = 200) => SplitIndependent(q)

\* what holds of the code: the direct variant, whose decoder keeps the bytes of a
\* character that is not whole, and the process variant on bytes that are
\* characters (a split inside a line, or between lines, changes nothing)
SplitIndependentButInsideCharacter ==
  \A q \in Requests :
    (/\ q.kind = "stream" /\ q.client = "open" /\ q.status = 200
     /\ variant = "process" => \A i \in 1..Len(q.got) : q.got[i] \in {"a", "\n"})
      => SplitIndependent(q)

\* the stream of q is over: the 'close' callback has run, or the upstream body
\* has ended
StreamOver(q) ==
  /\ q.kind = "stream" /\ q.client = "open" /\ q.status = 200 /\ q.pc = "done"
  /\ variant = "process" => (q.alive = "dead" /\ ~q.closePending)
  /\ variant = "direct" => ~q.readFailed

\* the line the backend had not ended with a newline when the stream was over is
\* relayed just before the finish chunk
LastLineRelayed(q) ==
  LET n == Len(q.frames)
  IN /\ n >= 4
     /\ q.frames[n - 2] = ContentChunk(Join(q.pending, ""))
     /\ q.frames[n - 1].kind = "finish" /\ q.frames[n] = DoneFrame

\* C39: in both variants, when a stream is over and the last line of the backend
\* has no newline, that line is handled and its content chunk is written before
\* the finish chunk.
C39_LastLineRelayed ==
  \A q \in Requests : (StreamOver(q) /\ q.pending # <<>>) => LastLineRelayed(q)

\* what holds of the code: the 'close' callback of the process variant handles
\* the rest of its buffer before it writes the finish chunk
ProcessRelaysLastLine ==
  \A q \in Requests :
    (variant = "process" /\ StreamOver(q) /\ q.pending # <<>>) => LastLineRelayed(q)

\* the argument chunk at position i of frames carries the index of a tool-call
\* chunk written before it
IndexIntroduced(frames, i) ==
  /\ frames[i].index >= 0
  /\ \E j \in 1..(i - 1) : frames[j].kind = "tool" /\ frames[j].index = frames[i].index

\* C40: every argument chunk of a stream of the direct variant carries an index
\* that is not negative and is that of a tool-call chunk written before it; a
\* fragment that arrives before any tool_use block gives no chunk on index -1.
C40_ArgsIndexIntroduced ==
  \A q \in Requests :
    (variant = "direct" /\ q.kind = "stream") =>
      \A i \in Of(q.frames, "args") : IndexIntroduced(q.frames, i)

\* what holds of the code: the index is introduced where a tool_use block has
\* arrived before the fragment
ArgsIndexIntroducedAfterToolUse ==
  \A q \in Requests :
    (variant = "direct" /\ q.kind = "stream" /\ q.client = "open") =>
      \A i \in Of(q.frames, "args") :
        (\E j \in 1..(i - 1) : q.frames[j].kind = "tool") => IndexIntroduced(q.frames, i)

=============================================================================
